---- MODULE Spec2Model ----
(***************************************************************************)
(* Model of @ackplus/nest-file-storage: the filesystem adapter             *)
(* (LocalStorage), the storage factory and configuration registry, and the *)
(* upload handlers of the three adapters.                                  *)
(*                                                                         *)
(* Strings are sequences of one-character strings, buffers are sequences   *)
(* of bytes.  The host is POSIX: path.sep is "/".                          *)
(***************************************************************************)
EXTENDS Integers, Sequences, FiniteSets, TLC

\* ------------------------------------------------------------------------
\* Bounds of the model
\* ------------------------------------------------------------------------
MaxBufLen == 1
MaxCalls == 3

\* ------------------------------------------------------------------------
\* String helpers (JavaScript String / node:path semantics)
\* ------------------------------------------------------------------------
Slash == "/"
Backslash == "\\"

RECURSIVE SeqsUpTo(_, _)
SeqsUpTo(S, n) ==
    IF n = 0 THEN {<<>>}
    ELSE LET shorter == SeqsUpTo(S, n - 1)
         IN  shorter \cup {Append(s, x) : s \in {t \in shorter : Len(t) = n - 1}, x \in S}

StartsWith(s, prefix) ==
    /\ Len(s) >= Len(prefix)
    /\ SubSeq(s, 1, Len(prefix)) = prefix

RECURSIVE SplitAcc(_, _, _, _)
SplitAcc(s, ch, cur, acc) ==
    IF s = <<>> THEN Append(acc, cur)
    ELSE IF Head(s) = ch THEN SplitAcc(Tail(s), ch, <<>>, Append(acc, cur))
    ELSE SplitAcc(Tail(s), ch, Append(cur, Head(s)), acc)

\* String.prototype.split(ch): "" splits to [""], "a//b" to ["a","","b"]
Split(s, ch) == SplitAcc(s, ch, <<>>, <<>>)

RECURSIVE JoinWith(_, _)
\* Array.prototype.join(ch)
JoinWith(parts, ch) ==
    IF parts = <<>> THEN <<>>
    ELSE IF Len(parts) = 1 THEN parts[1]
    ELSE parts[1] \o <<ch>> \o JoinWith(Tail(parts), ch)

NonEmptyParts(parts) == SelectSeq(parts, LAMBDA p : Len(p) > 0)

RECURSIVE StripLeading(_, _)
\* replace(/^X+/, '')
StripLeading(s, ch) ==
    IF s # <<>> /\ Head(s) = ch THEN StripLeading(Tail(s), ch) ELSE s

\* replace(/^X/, '')
StripOneLeading(s, ch) == IF s # <<>> /\ Head(s) = ch THEN Tail(s) ELSE s

\* replace(/X$/, '')
StripOneTrailing(s, ch) ==
    IF s # <<>> /\ s[Len(s)] = ch THEN SubSeq(s, 1, Len(s) - 1) ELSE s

\* replace(/\\/g, '/')
BackslashesToSlashes(s) == [i \in 1..Len(s) |-> IF s[i] = Backslash THEN Slash ELSE s[i]]

Dot == <<".">>
DotDot == <<".", ".">>

RECURSIVE normalizeString(_, _, _)
\* node:path normalizeString: resolves "." and ".." segments
normalizeString(parts, res, allowAboveRoot) ==
    IF parts = <<>> THEN res
    ELSE LET p == Head(parts)
             rest == Tail(parts)
         IN  IF p = <<>> \/ p = Dot THEN normalizeString(rest, res, allowAboveRoot)
             ELSE IF p = DotDot
                  THEN IF res # <<>> /\ res[Len(res)] # DotDot
                       THEN normalizeString(rest, SubSeq(res, 1, Len(res) - 1), allowAboveRoot)
                       ELSE IF allowAboveRoot
                            THEN normalizeString(rest, Append(res, DotDot), allowAboveRoot)
                            ELSE normalizeString(rest, res, allowAboveRoot)
                  ELSE normalizeString(rest, Append(res, p), allowAboveRoot)

\* node:path posix.normalize
normalize(path) ==
    IF path = <<>> THEN Dot
    ELSE LET isAbsolute == Head(path) = Slash
             trailingSeparator == path[Len(path)] = Slash
             kept == JoinWith(normalizeString(Split(path, Slash), <<>>, ~isAbsolute), Slash)
         IN  IF kept = <<>>
             THEN IF isAbsolute THEN <<Slash>>
                  ELSE IF trailingSeparator THEN <<".", Slash>> ELSE Dot
             ELSE (IF isAbsolute THEN <<Slash>> ELSE <<>>) \o kept
                  \o (IF trailingSeparator THEN <<Slash>> ELSE <<>>)

\* node:path posix.join of two string arguments
join(a, b) ==
    LET joined == JoinWith(NonEmptyParts(<<a, b>>), Slash)
    IN  IF joined = <<>> THEN Dot ELSE normalize(joined)

\* node:path posix.dirname
dirname(path) ==
    LET idx == {i \in 2..Len(path) : path[i] = Slash /\ i < Len(path)}
        cut == IF idx = {} THEN 0 ELSE CHOOSE i \in idx : \A j \in idx : j <= i
    IN  IF path = <<>> THEN Dot
        ELSE IF cut = 0
             THEN IF Head(path) = Slash THEN <<Slash>> ELSE Dot
             ELSE SubSeq(path, 1, cut - 1)

\* ------------------------------------------------------------------------
\* Values
\* ------------------------------------------------------------------------
\* keys the client passes: the empty key, canonical keys (one segment, a
\* sibling, a key nested below another key), spellings with a leading, a
\* trailing and a doubled slash, and a key with a ".." segment
Keys ==
    { <<>>,
      <<"a">>, <<"b">>, <<"a", "/", "b">>,
      <<"/", "a">>, <<"a", "/">>, <<"a", "/", "/", "b">>,
      <<".", ".", "/", "c">> }
Bytes == {0, 1}
Bufs == SeqsUpTo(Bytes, MaxBufLen)

\* JavaScript undefined
Undefined == [undefined |-> TRUE]

\* an optional value: <<>> is absent, <<v>> is v
None == <<>>
Some(v) == <<v>>

Ok(v) == [ok |-> TRUE, val |-> v, err |-> "none"]
Err(code) == [ok |-> FALSE, val |-> <<>>, err |-> code]

\* ------------------------------------------------------------------------
\* LocalStorage: configuration and key/path codec
\* ------------------------------------------------------------------------
\* new LocalStorage({ rootPath: './up', baseUrl: 'http://x/up' })
LocalOptions ==
    [rootPath |-> <<".", "/", "u", "p">>,
     baseUrl  |-> <<"h", "t", "t", "p", ":", "/", "/", "x", "/", "u", "p">>]

sep == Slash

\* this.rootPath = normalize(options.rootPath)
rootPath == normalize(LocalOptions.rootPath)

\* pathToUrl of an adapter whose this.rootPath is root
pathToUrlIn(root, filePath) ==
    IF filePath = <<>> THEN <<>>
    ELSE LET relativePath == IF StartsWith(filePath, root)
                             THEN SubSeq(filePath, Len(root) + 1, Len(filePath))
                             ELSE filePath
         IN  StripLeading(BackslashesToSlashes(relativePath), Slash)

pathToUrl(filePath) == pathToUrlIn(rootPath, filePath)

urlToPath(urlKey) ==
    IF urlKey = <<>> THEN <<>>
    ELSE JoinWith(NonEmptyParts(Split(urlKey, Slash)), sep)

\* getFullPath of an adapter whose this.rootPath is root
getFullPathIn(root, urlKey) == join(root, urlToPath(urlKey))

getFullPath(urlKey) == getFullPathIn(rootPath, urlKey)

Http == <<"h", "t", "t", "p">>

\* (mutant) concatenates base URL, '/' and key as they are
getUrlWith_asIs(configuredBase, urlKey) ==
    IF urlKey # <<>> /\ StartsWith(urlKey, Http) THEN urlKey
    ELSE IF urlKey = <<>> THEN <<>>
    ELSE configuredBase \o <<Slash>> \o urlKey

\* getUrl of an adapter whose options.baseUrl is configuredBase
getUrlWith(configuredBase, urlKey) ==
    IF urlKey # <<>> /\ StartsWith(urlKey, Http) THEN urlKey
    ELSE IF urlKey = <<>> THEN <<>>
    ELSE LET baseUrl == StripOneTrailing(configuredBase, Slash)
             cleanKey == StripOneLeading(urlKey, Slash)
         IN  baseUrl \o <<Slash>> \o cleanKey

getUrl(urlKey) == getUrlWith(LocalOptions.baseUrl, urlKey)

\* urlKey.split('/').pop() || urlKey
leafName(urlKey) ==
    LET parts == Split(urlKey, Slash)
        last == parts[Len(parts)]
    IN  IF last # <<>> THEN last ELSE urlKey

\* canonical StorageKey: non-empty segments joined by '/', no backslash
IsCanonical(k) ==
    /\ k # <<>>
    /\ \A i \in 1..Len(k) : k[i] # Backslash
    /\ \A i \in 1..Len(Split(k, Slash)) : Split(k, Slash)[i] # <<>>

\* ------------------------------------------------------------------------
\* The filesystem the adapter works on (node:fs on a POSIX host).
\* fileMap maps the path of every regular file to its content, dirSet is the
\* set of directories; the working directory "." always exists.
\* ------------------------------------------------------------------------
RECURSIVE Ancestors(_)
Ancestors(p) ==
    IF dirname(p) = p THEN {} ELSE {dirname(p)} \cup Ancestors(dirname(p))

\* the paths the keys of the model address, with their ancestors (tabulated)
FullPath == [k \in Keys |-> getFullPath(k)]
KeyPaths == {FullPath[k] : k \in Keys}
AllPaths == KeyPaths \cup UNION {Ancestors(p) : p \in KeyPaths}
AncestorsTable == [p \in AllPaths |-> Ancestors(p)]
DirnameTable == [p \in AllPaths |-> dirname(p)]
FullPathOf(urlKey) == IF urlKey \in Keys THEN FullPath[urlKey] ELSE getFullPath(urlKey)
AncestorsOf(p) == IF p \in AllPaths THEN AncestorsTable[p] ELSE Ancestors(p)
DirnameOf(p) == IF p \in AllPaths THEN DirnameTable[p] ELSE dirname(p)

IsDir(dirSet, p) == p = Dot \/ p \in dirSet

\* fs.mkdirSync(dir, { recursive: true })
mkdirSync(fileMap, dirSet, dir) ==
    LET chain == ({dir} \cup AncestorsOf(dir)) \ {Dot}
    IN  IF chain \cap DOMAIN fileMap # {}
        THEN Err(IF dir \in DOMAIN fileMap THEN "EEXIST" ELSE "ENOTDIR")
        ELSE Ok(dirSet \cup chain)

\* error of opening path p, "none" when p can be opened or created as a file
openError(fileMap, dirSet, p) ==
    IF AncestorsOf(p) \cap DOMAIN fileMap # {} THEN "ENOTDIR"
    ELSE IF ~IsDir(dirSet, DirnameOf(p)) THEN "ENOENT"
    ELSE IF IsDir(dirSet, p) THEN "EISDIR"
    ELSE "none"

\* fs.readFile(p)
readFile(fileMap, dirSet, p) ==
    IF p \in DOMAIN fileMap THEN Ok(fileMap[p])
    ELSE IF openError(fileMap, dirSet, p) # "none" THEN Err(openError(fileMap, dirSet, p))
    ELSE Err("ENOENT")

\* fs.writeFile(p, content) opens p with flag 'w', writes content at the
\* start of the file and closes it.  The open creates the file or truncates
\* it: the new file map
openTruncate(fileMap, dirSet, p) ==
    IF openError(fileMap, dirSet, p) # "none" THEN Err(openError(fileMap, dirSet, p))
    ELSE Ok((p :> <<>>) @@ fileMap)

\* content written at offset 0 over what the file holds
Overlaid(old, content) == content \o SubSeq(old, Len(content) + 1, Len(old))

\* the write through a descriptor of p: the new file map.  A descriptor whose
\* file was unlinked since the open (orphan) writes to no path
writeOpened(fileMap, p, content, orphan) ==
    IF orphan \/ p \notin DOMAIN fileMap THEN fileMap
    ELSE (p :> Overlaid(fileMap[p], content)) @@ fileMap

\* fs.unlink(p): the new file map
unlink(fileMap, dirSet, p) ==
    IF p \in DOMAIN fileMap THEN Ok([q \in DOMAIN fileMap \ {p} |-> fileMap[q]])
    ELSE IF openError(fileMap, dirSet, p) # "none" THEN Err(openError(fileMap, dirSet, p))
    ELSE Err("ENOENT")

\* (mutant) renames instead of copying: the source is gone afterwards
copyFileFs_moves(fileMap, dirSet, src, dst) ==
    IF ~readFile(fileMap, dirSet, src).ok THEN Err(readFile(fileMap, dirSet, src).err)
    ELSE IF openError(fileMap, dirSet, dst) # "none" THEN Err(openError(fileMap, dirSet, dst))
    ELSE Ok((dst :> fileMap[src]) @@ [q \in DOMAIN fileMap \ {src} |-> fileMap[q]])

\* fs.copyFile(src, dst): the new file map; copying a file onto itself
\* succeeds and changes nothing
copyFileFs(fileMap, dirSet, src, dst) ==
    IF ~readFile(fileMap, dirSet, src).ok THEN Err(readFile(fileMap, dirSet, src).err)
    ELSE IF openError(fileMap, dirSet, dst) # "none" THEN Err(openError(fileMap, dirSet, dst))
    ELSE Ok((dst :> fileMap[src]) @@ fileMap)

\* fs.statSync(p).size (a directory's size is platform-defined; the adapter
\* never stats one, since writing or copying onto a directory fails first)
statSize(fileMap, dirSet, p) ==
    IF p \in DOMAIN fileMap THEN Ok(Len(fileMap[p]))
    ELSE IF IsDir(dirSet, p) THEN Ok(0)
    ELSE Err("ENOENT")

\* ------------------------------------------------------------------------
\* State
\* ------------------------------------------------------------------------
VARIABLES
    files,      \* filesystem: path of each regular file -> content
    dirs,       \* filesystem: set of directories
    calls,      \* putFile / copyFile calls in flight, per call slot
    ret,        \* how the last call settled, until the client takes it
    lastPut,    \* history: path -> content of the last resolved putFile that
                \*   addressed the path, dropped once another putFile, copyFile
                \*   (as destination) or deleteFile addresses the path
    deleted,    \* history: paths whose deleteFile resolved and that no putFile
                \*   or copyFile has written since
    nCalls      \* number of putFile / copyFile / deleteFile calls issued so far

fsVars == <<files, dirs, calls, ret, lastPut, deleted, nCalls>>
fsRest == <<files, calls, ret, lastPut, deleted, nCalls>>

\* the call slot of a client that awaits every call, and the slots of
\* calls that overlap
Slots == {1}
RaceSlots == {1, 2}

NoRec ==
    [originalName |-> <<>>, size |-> 0, fileName |-> <<>>, key |-> <<>>,
     url |-> <<>>, fullPath |-> <<>>]

Idle ==
    [pc |-> "idle", op |-> "none", key |-> <<>>, src |-> <<>>, buf |-> <<>>,
     err |-> "none", held |-> None, opts |-> Undefined, orphan |-> FALSE]

NoRet ==
    [op |-> "none", key |-> <<>>, src |-> <<>>, buf |-> <<>>, settled |-> "none",
     err |-> "none", rec |-> NoRec, data |-> <<>>, held |-> None, opts |-> Undefined,
     stat |-> Err("none")]

\* the client issues a call only when its previous call has settled and it
\* has taken the result
Quiescent == ret = NoRet /\ \A c \in RaceSlots : calls[c].pc = "idle"

Without(f, p) == [q \in DOMAIN f \ {p} |-> f[q]]

\* the root paths a configuration of the model can give, normalized (tabulated)
DefaultRoot == join(Dot, <<"p", "u", "b", "l", "i", "c">>)
RootPaths == {LocalOptions.rootPath, <<"p">>, DefaultRoot}
NormalizedRoot == [r \in RootPaths |-> normalize(r)]

\* constructor: normalize(options.rootPath || join(process.cwd(), 'public'))
constructorRoot(options) ==
    LET rawRoot == IF "rootPath" \in DOMAIN options /\ options.rootPath # <<>>
                   THEN options.rootPath ELSE DefaultRoot
    IN  IF rawRoot \in RootPaths THEN NormalizedRoot[rawRoot] ELSE normalize(rawRoot)

\* constructor: creates the root directory if absent; the directory set
\* afterwards, or the error mkdirSync throws
EnsureRoot(fileMap, dirSet, root) ==
    IF IsDir(dirSet, root) \/ root \in DOMAIN fileMap
    THEN Ok(dirSet)
    ELSE mkdirSync(fileMap, dirSet, root)

LocalStorageNew(fileMap, dirSet, options) ==
    EnsureRoot(fileMap, dirSet, constructorRoot(options))

FsInit ==
    /\ files = <<>>
    /\ dirs = LocalStorageNew(<<>>, {}, LocalOptions).val
    /\ calls = [c \in RaceSlots |-> Idle]
    /\ ret = NoRet
    /\ lastPut = <<>>
    /\ deleted = {}
    /\ nCalls = 0

\* the client takes the result of its last call
Return ==
    /\ ret # NoRet
    /\ ret' = NoRet
    /\ UNCHANGED <<files, dirs, calls, lastPut, deleted, nCalls>>

\* ------------------------------------------------------------------------
\* LocalStorage.getFile / deleteFile
\* ------------------------------------------------------------------------
\* (mutant) reads the file named by the last segment of the key only
getFile_leafOnly(fileMap, dirSet, urlKey) ==
    readFile(fileMap, dirSet, getFullPath(leafName(urlKey)))

\* what getFile(urlKey) settles with in the current state
getFile(fileMap, dirSet, urlKey) == readFile(fileMap, dirSet, FullPathOf(urlKey))

GetFile(urlKey) ==
    /\ LET r == getFile(files, dirs, urlKey)
       IN  ret' = [NoRet EXCEPT !.op = "getFile", !.key = urlKey,
                                !.settled = IF r.ok THEN "resolved" ELSE "rejected",
                                !.err = r.err, !.data = r.val]
    /\ UNCHANGED <<files, dirs, calls, lastPut, deleted, nCalls>>

\* (mutant) resolves without unlinking the file
deleteFile_keepsFile(fileMap, dirSet, urlKey) ==
    IF unlink(fileMap, dirSet, FullPathOf(urlKey)).ok THEN Ok(fileMap)
    ELSE unlink(fileMap, dirSet, FullPathOf(urlKey))

\* the calls in flight after path p was unlinked: a descriptor open on p
\* keeps the unlinked file
Unlinked(inFlight, p) ==
    [c \in DOMAIN inFlight |->
        IF inFlight[c].pc = "opened" /\ FullPathOf(inFlight[c].key) = p
        THEN [inFlight[c] EXCEPT !.orphan = TRUE] ELSE inFlight[c]]

\* what deleteFile(urlKey) does to the file map
deleteFile(fileMap, dirSet, urlKey) == unlink(fileMap, dirSet, FullPathOf(urlKey))

DeleteFile(urlKey) ==
    /\ nCalls < MaxCalls
    /\ nCalls' = nCalls + 1
    /\ LET r == deleteFile(files, dirs, urlKey)
       IN  /\ files' = IF r.ok THEN r.val ELSE files
           /\ ret' = [NoRet EXCEPT !.op = "deleteFile", !.key = urlKey,
                                   !.settled = IF r.ok THEN "resolved" ELSE "rejected",
                                   !.err = r.err]
           /\ deleted' = IF r.ok THEN deleted \cup {FullPathOf(urlKey)} ELSE deleted
    /\ lastPut' = Without(lastPut, FullPathOf(urlKey))
    /\ calls' = IF deleteFile(files, dirs, urlKey).ok
                THEN Unlinked(calls, FullPathOf(urlKey)) ELSE calls
    /\ UNCHANGED dirs

\* ------------------------------------------------------------------------
\* LocalStorage.putFile: the promise executor (mkdirSync, fs.writeFile is
\* started), the open and the write of fs.writeFile, and its callback
\* ------------------------------------------------------------------------
\* (mutant) builds the url from the filesystem path instead of the key
putRecord_urlOfPath(urlKey, size, filePath) ==
    [originalName |-> leafName(urlKey),
     size         |-> size,
     fileName     |-> leafName(urlKey),
     key          |-> urlKey,
     url          |-> getUrl(filePath),
     fullPath     |-> filePath]

putRecord(urlKey, size, filePath) ==
    [originalName |-> leafName(urlKey),
     size         |-> size,
     fileName     |-> leafName(urlKey),
     key          |-> urlKey,
     url          |-> getUrl(urlKey),
     fullPath     |-> filePath]

\* { ...fileInfo, ...options }: the properties of options replace those of
\* the record; options may be undefined
Spread(record, options) == IF options = Undefined THEN record ELSE options @@ record

\* putFile(fileContent, urlKey, options)
PutFileWith(c, fileContent, urlKey, options) ==
    /\ calls[c].pc = "idle"
    /\ nCalls < MaxCalls
    /\ nCalls' = nCalls + 1
    /\ LET filePath == FullPathOf(urlKey)
           mkdir == mkdirSync(files, dirs, DirnameOf(filePath))
       IN  IF mkdir.ok
           THEN /\ dirs' = mkdir.val
                /\ calls' = [calls EXCEPT ![c] =
                               [Idle EXCEPT !.pc = "writing", !.op = "putFile",
                                            !.key = urlKey, !.buf = fileContent,
                                            !.opts = options]]
                /\ ret' = NoRet
           ELSE \* mkdirSync throws inside the executor: the promise rejects
                /\ ret' = [NoRet EXCEPT !.op = "putFile", !.key = urlKey,
                                        !.buf = fileContent, !.settled = "rejected",
                                        !.err = mkdir.err, !.opts = options]
                /\ UNCHANGED <<dirs, calls>>
    /\ lastPut' = Without(lastPut, FullPathOf(urlKey))
    /\ UNCHANGED <<files, deleted>>

\* putFile(fileContent, urlKey)
PutFile(c, fileContent, urlKey) == PutFileWith(c, fileContent, urlKey, Undefined)

PutOpen(c) ==
    /\ calls[c].pc = "writing"
    /\ calls[c].op = "putFile"
    /\ LET filePath == FullPathOf(calls[c].key)
           w == openTruncate(files, dirs, filePath)
       IN  /\ files' = IF w.ok THEN w.val ELSE files
           /\ calls' = [calls EXCEPT ![c].pc = IF w.ok THEN "opened" ELSE "callback",
                                     ![c].err = w.err]
           /\ deleted' = IF w.ok THEN deleted \ {filePath} ELSE deleted
    /\ UNCHANGED <<dirs, ret, lastPut, nCalls>>

PutWrite(c) ==
    /\ calls[c].pc = "opened"
    /\ calls[c].op = "putFile"
    /\ files' = writeOpened(files, FullPathOf(calls[c].key), calls[c].buf, calls[c].orphan)
    /\ calls' = [calls EXCEPT ![c].pc = "callback"]
    /\ UNCHANGED <<dirs, ret, lastPut, deleted, nCalls>>

PutCallback(c) ==
    /\ calls[c].pc = "callback"
    /\ calls[c].op = "putFile"
    /\ LET urlKey == calls[c].key
           filePath == FullPathOf(urlKey)
           stats == statSize(files, dirs, filePath)
           base == [NoRet EXCEPT !.op = "putFile", !.key = urlKey, !.buf = calls[c].buf,
                                 !.opts = calls[c].opts, !.stat = stats]
       IN  IF calls[c].err # "none"
           THEN /\ ret' = [base EXCEPT !.settled = "rejected", !.err = calls[c].err]
                /\ UNCHANGED lastPut
           ELSE IF ~stats.ok
           THEN \* statSync throws inside the callback: neither resolve nor reject runs
                /\ ret' = [base EXCEPT !.settled = "never", !.err = stats.err]
                /\ UNCHANGED lastPut
           ELSE /\ ret' = [base EXCEPT !.settled = "resolved",
                                       !.rec = Spread(putRecord(urlKey, stats.val, filePath),
                                                      calls[c].opts)]
                /\ lastPut' = (filePath :> calls[c].buf) @@ lastPut
    /\ calls' = [calls EXCEPT ![c] = Idle]
    /\ UNCHANGED <<files, dirs, deleted, nCalls>>

\* ------------------------------------------------------------------------
\* LocalStorage.copyFile: the promise executor (mkdirSync, fs.copyFile is
\* started), the copy itself, and the callback of fs.copyFile
\* ------------------------------------------------------------------------
copyRecord(newUrlKey, size, newPath) ==
    [originalName |-> leafName(newUrlKey),
     size         |-> size,
     fileName     |-> leafName(newUrlKey),
     key          |-> newUrlKey,
     url          |-> getUrl(newUrlKey),
     fullPath     |-> newPath]

\* the content the source key holds, if it holds any
Held(fileMap, dirSet, urlKey) ==
    IF getFile(fileMap, dirSet, urlKey).ok
    THEN Some(getFile(fileMap, dirSet, urlKey).val) ELSE None

CopyFile(c, oldUrlKey, newUrlKey) ==
    /\ calls[c].pc = "idle"
    /\ nCalls < MaxCalls
    /\ nCalls' = nCalls + 1
    /\ LET newPath == FullPathOf(newUrlKey)
           mkdir == mkdirSync(files, dirs, DirnameOf(newPath))
           held == Held(files, dirs, oldUrlKey)
       IN  IF mkdir.ok
           THEN /\ dirs' = mkdir.val
                /\ calls' = [calls EXCEPT ![c] =
                               [Idle EXCEPT !.pc = "writing", !.op = "copyFile",
                                            !.key = newUrlKey, !.src = oldUrlKey,
                                            !.held = held]]
                /\ ret' = NoRet
           ELSE /\ ret' = [NoRet EXCEPT !.op = "copyFile", !.key = newUrlKey,
                                        !.src = oldUrlKey, !.held = held,
                                        !.settled = "rejected", !.err = mkdir.err]
                /\ UNCHANGED <<dirs, calls>>
    /\ lastPut' = Without(lastPut, FullPathOf(newUrlKey))
    /\ UNCHANGED <<files, deleted>>

CopyWrite(c) ==
    /\ calls[c].pc = "writing"
    /\ calls[c].op = "copyFile"
    /\ LET oldPath == FullPathOf(calls[c].src)
           newPath == FullPathOf(calls[c].key)
           w == copyFileFs(files, dirs, oldPath, newPath)
       IN  /\ files' = IF w.ok THEN w.val ELSE files
           /\ calls' = [calls EXCEPT ![c].pc = "callback", ![c].err = w.err]
           /\ deleted' = IF w.ok THEN deleted \ {newPath} ELSE deleted
    /\ UNCHANGED <<dirs, ret, lastPut, nCalls>>

CopyCallback(c) ==
    /\ calls[c].pc = "callback"
    /\ calls[c].op = "copyFile"
    /\ LET newUrlKey == calls[c].key
           newPath == FullPathOf(newUrlKey)
           stats == statSize(files, dirs, newPath)
           base == [NoRet EXCEPT !.op = "copyFile", !.key = newUrlKey,
                                 !.src = calls[c].src, !.held = calls[c].held]
       IN  IF calls[c].err # "none"
           THEN ret' = [base EXCEPT !.settled = "rejected", !.err = calls[c].err]
           ELSE IF ~stats.ok
           THEN ret' = [base EXCEPT !.settled = "never", !.err = stats.err]
           ELSE ret' = [base EXCEPT !.settled = "resolved",
                                    !.rec = copyRecord(newUrlKey, stats.val, newPath)]
    /\ calls' = [calls EXCEPT ![c] = Idle]
    /\ UNCHANGED <<files, dirs, lastPut, deleted, nCalls>>

\* ------------------------------------------------------------------------
\* Storage factory and configuration registry: values
\* ------------------------------------------------------------------------

\* FileStorageEnum, a selector outside the enum, and no selector; a selector
\* is the string its template-literal interpolation gives
EnumLocal == "local"
EnumS3 == "s3"
EnumAzure == "azure"
Selectors == {EnumLocal, EnumS3, EnumAzure, "ftp", "undefined"}

\* function-valued fields of a backend configuration
FunctionFields == {"fileName", "fileDist", "transformUploadedFileObject"}

LocalConfigA == LocalOptions
LocalConfigB == [rootPath |-> <<"p">>, baseUrl |-> <<"h", "t", "t", "p", ":", "/", "/", "y">>]
\* function values: an absent (undefined) function, one that returns a
\* string, one that throws
NoFn == [kind |-> "undefined"]
Returns(str) == [kind |-> "returns", val |-> str]
Throws(error) == [kind |-> "throws", err |-> error]

LocalConfigFn == [rootPath |-> LocalOptions.rootPath, baseUrl |-> LocalOptions.baseUrl,
                  fileName |-> Returns(<<"n">>)]
LocalConfigPlaced == [rootPath |-> LocalOptions.rootPath, baseUrl |-> LocalOptions.baseUrl,
                      fileDist |-> Returns(<<"e">>)]
S3Config == [accessKeyId |-> "AK", secretAccessKey |-> "SK", region |-> "r1", bucket |-> "b1"]
AzureConfig == [account |-> "acc", accountKey |-> "key", container |-> "c1"]

\* a filesystem configuration without baseUrl
LocalConfigNoBase == [rootPath |-> <<"p">>]

Configs ==
    {Undefined, LocalConfigA, LocalConfigB, LocalConfigFn, LocalConfigNoBase, S3Config,
     AzureConfig}

\* FileStorageModuleOptions values handed to setOptions: the declarative
\* shape with one or several per-backend blocks or with no selector, and the
\* class-factory shape
RegistryEntries ==
    { [storage |-> EnumLocal, localConfig |-> LocalConfigA],
      [storage |-> EnumS3, s3Config |-> S3Config],
      [storage |-> EnumAzure, azureConfig |-> AzureConfig],
      [storage |-> EnumLocal, localConfig |-> LocalConfigA, s3Config |-> S3Config,
       azureConfig |-> AzureConfig],
      [localConfig |-> LocalConfigA],
      [storage |-> EnumLocal, localConfig |-> LocalConfigPlaced],
      [storageFactory |-> "CustomStorage", options |-> Undefined] }

NoError == [name |-> "none", message |-> <<>>]
TypeError == [name |-> "TypeError", message |-> <<"Cannot read properties of undefined">>]

\* a node:fs error with its code
FsError(code) == [name |-> "Error", message |-> <<code>>]

ModuleNotFoundError == [name |-> "Error", message |-> <<"Cannot find module">>]

UnsupportedError(storageType) ==
    [name |-> "Error", message |-> <<"Unsupported storage type: ", storageType>>]

AzurePackage == "@azure/storage-blob"
S3Packages == <<"@aws-sdk/client-s3", "@aws-sdk/s3-request-presigner">>

MissingAzureError ==
    [name |-> "Error",
     message |-> <<"Azure Storage SDK (", AzurePackage,
                   ") is required when using AzureStorage. Please install it: npm install ",
                   AzurePackage>>]

MissingS3Error ==
    [name |-> "Error",
     message |-> <<"AWS SDK (", S3Packages[1], " and ", S3Packages[2],
                   ") is required when using S3Storage. Please install them: npm install ",
                   S3Packages[1], " ", S3Packages[2]>>]

\* JSON.stringify(options): undefined stays undefined, function-valued
\* properties of an object are left out
Serialize(options) ==
    IF options = Undefined THEN Undefined
    ELSE [f \in DOMAIN options \ FunctionFields |-> options[f]]

\* `${storageType}-${JSON.stringify(options)}`
CacheKey(storageType, options) == <<storageType, "-", Serialize(options)>>

\* ------------------------------------------------------------------------
\* Storage factory and configuration registry: state
\* ------------------------------------------------------------------------
VARIABLES
    serviceOptions,     \* FileStorageService.options (Undefined until setOptions)
    storageInstances,   \* StorageFactory.storageInstances: cache key -> adapter
    adapters,           \* every adapter constructed so far; an adapter's identity
                        \*   is its index
    installed,          \* optional backend client libraries that can be loaded
    fret,               \* how the last createStorage / getStorage call settled
    made,               \* history: <<selector, config>> -> adapter the latest
                        \*   successful createStorage for it returned, since the
                        \*   last clearCache
    missingSeen         \* history: a createStorage has failed on a missing library

factoryVars == <<serviceOptions, storageInstances, adapters, installed, fret, made,
                 missingSeen>>

MaxAdapters == 2

NoFret ==
    [op |-> "none", storageType |-> "undefined", options |-> Undefined,
     ok |-> FALSE, inst |-> 0, err |-> NoError, prev |-> 0, built |-> 0]

FactoryInit ==
    /\ serviceOptions = Undefined
    /\ storageInstances = <<>>
    /\ adapters = <<>>
    /\ installed \in SUBSET {EnumS3, EnumAzure}
    /\ fret = NoFret
    /\ made = <<>>
    /\ missingSeen = FALSE

\* the caller takes the settled result of its call
FactoryReturn ==
    /\ fret # NoFret
    /\ fret' = NoFret
    /\ UNCHANGED <<serviceOptions, storageInstances, adapters, installed, made, missingSeen>>

\* ------------------------------------------------------------------------
\* Adapter constructors
\* ------------------------------------------------------------------------
NoAdapter == [type |-> "none", options |-> Undefined]

Built(adapter, dirSet) == [ok |-> TRUE, val |-> adapter, err |-> NoError, dirs |-> dirSet]
Thrown(error, dirSet) == [ok |-> FALSE, val |-> NoAdapter, err |-> error, dirs |-> dirSet]

\* new LocalStorage(options): reads options.rootPath first, creates the root
\* directory if absent
Rooted(options, dirSet, rooted) ==
    IF ~rooted.ok THEN Thrown(FsError(rooted.err), dirSet)
    ELSE Built([type |-> EnumLocal, options |-> options], rooted.val)

newLocalStorage(options, fileMap, dirSet) ==
    IF options = Undefined THEN Thrown(TypeError, dirSet)
    ELSE Rooted(options, dirSet, LocalStorageNew(fileMap, dirSet, options))

\* new S3Storage(options): reads options.fileName first; the client is built
\* from whatever fields are there
newS3Storage(options, fileMap, dirSet) ==
    IF options = Undefined THEN Thrown(TypeError, dirSet)
    ELSE Built([type |-> EnumS3, options |-> options], dirSet)

\* new AzureStorage(options): reads options.fileName first, then builds a
\* StorageSharedKeyCredential, which decodes options.accountKey
newAzureStorage(options, fileMap, dirSet) ==
    IF options = Undefined THEN Thrown(TypeError, dirSet)
    ELSE IF "accountKey" \notin DOMAIN options THEN Thrown(TypeError, dirSet)
    ELSE Built([type |-> EnumAzure, options |-> options], dirSet)

\* (mutant) every adapter module is imported up front, so any import needs
\* both client libraries
importAdapter_eager(storageType, libs) == libs = {EnumS3, EnumAzure}

\* await import('./storage/<type>.storage.js'): whether the module loads
importAdapter(storageType, libs) ==
    storageType = EnumLocal \/ storageType \in libs

\* ------------------------------------------------------------------------
\* StorageFactory.createStorage / clearCache
\* ------------------------------------------------------------------------
FactoryFail(error, cache, heap, dirSet) ==
    [ok |-> FALSE, inst |-> 0, err |-> error, cache |-> cache, heap |-> heap,
     dirs |-> dirSet]

\* this.storageInstances.set(cacheKey, storageInstance); return storageInstance
FactoryDone(storageType, options, built, cache, heap) ==
    [ok |-> TRUE, inst |-> Len(heap) + 1, err |-> NoError,
     cache |-> (CacheKey(storageType, options) :> (Len(heap) + 1)) @@ cache,
     heap |-> Append(heap, built.val), dirs |-> built.dirs]

\* the adapter is cached and returned, or the constructor's error propagates
Constructed(storageType, options, constructed, cache, heap, dirSet) ==
    IF constructed.ok THEN FactoryDone(storageType, options, constructed, cache, heap)
    ELSE FactoryFail(constructed.err, cache, heap, dirSet)

\* try { import; new Adapter(options) } catch { throw new Error(...) }
ConstructedOrMissing(storageType, options, loaded, constructed, missing, cache, heap, dirSet) ==
    IF loaded /\ constructed.ok
    THEN FactoryDone(storageType, options, constructed, cache, heap)
    ELSE FactoryFail(missing, cache, heap, dirSet)

\* (mutant) an unknown selector falls back to the local adapter
createStorage_fallsBack(storageType, options, cache, heap, libs, fileMap, dirSet) ==
    Constructed(storageType, options, newLocalStorage(options, fileMap, dirSet), cache,
                heap, dirSet)

createStorage(storageType, options, cache, heap, libs, fileMap, dirSet) ==
    CASE storageType = EnumLocal ->
            \* import and constructor outside any try: a failure propagates
            IF ~importAdapter(EnumLocal, libs)
            THEN FactoryFail(ModuleNotFoundError, cache, heap, dirSet)
            ELSE Constructed(storageType, options,
                             newLocalStorage(options, fileMap, dirSet), cache, heap, dirSet)
      [] storageType = EnumAzure ->
            ConstructedOrMissing(storageType, options, importAdapter(EnumAzure, libs),
                                 newAzureStorage(options, fileMap, dirSet),
                                 MissingAzureError, cache, heap, dirSet)
      [] storageType = EnumS3 ->
            ConstructedOrMissing(storageType, options, importAdapter(EnumS3, libs),
                                 newS3Storage(options, fileMap, dirSet),
                                 MissingS3Error, cache, heap, dirSet)
      [] OTHER -> FactoryFail(UnsupportedError(storageType), cache, heap, dirSet)

\* the state after a createStorage call that settled with r
CreateStorageSettled(storageType, options, r) ==
    /\ storageInstances' = r.cache
    /\ adapters' = r.heap
    /\ dirs' = r.dirs
    /\ fret' = [op |-> "createStorage", storageType |-> storageType,
                options |-> options, ok |-> r.ok, inst |-> r.inst, err |-> r.err,
                prev |-> IF <<storageType, options>> \in DOMAIN made
                         THEN made[<<storageType, options>>] ELSE 0,
                built |-> Len(r.heap) - Len(adapters)]
    /\ made' = IF r.ok THEN (<<storageType, options>> :> r.inst) @@ made ELSE made
    /\ missingSeen' = (missingSeen \/
                         (~r.ok /\ storageType \in {EnumS3, EnumAzure}
                                /\ ~importAdapter(storageType, installed)))

CreateStorage(storageType, options) ==
    /\ Len(adapters) < MaxAdapters
    /\ CreateStorageSettled(storageType, options,
                            createStorage(storageType, options, storageInstances,
                                          adapters, installed, files, dirs))
    /\ UNCHANGED <<serviceOptions, installed>>

ClearCache ==
    /\ storageInstances' = <<>>
    /\ made' = <<>>
    /\ UNCHANGED <<serviceOptions, adapters, installed, fret, missingSeen>>

\* ------------------------------------------------------------------------
\* FileStorageService.setOptions / getOptions / getStorage
\* ------------------------------------------------------------------------
\* (mutant) the registry keeps the entry it was first given
SetOptions_once(options) ==
    /\ serviceOptions' = IF serviceOptions = Undefined THEN options ELSE serviceOptions
    /\ UNCHANGED <<storageInstances, adapters, installed, fret, made, missingSeen>>

SetOptions(options) ==
    /\ serviceOptions' = options
    /\ UNCHANGED <<storageInstances, adapters, installed, fret, made, missingSeen>>

getOptions == serviceOptions

\* (configOptions as any)[`${storageType}Config`]
ConfigBlock(options, storageType) ==
    LET field == CASE storageType = EnumLocal -> "localConfig"
                   [] storageType = EnumS3 -> "s3Config"
                   [] storageType = EnumAzure -> "azureConfig"
                   [] OTHER -> "noSuchConfig"
    IN  IF field \in DOMAIN options THEN options[field] ELSE Undefined

\* (mutant) the override argument is ignored
ResolvedSelector_configuredOnly(options, storageType) ==
    IF "storage" \in DOMAIN options THEN options.storage ELSE "undefined"

\* the selector getStorage hands to the factory: if (!storageType)
\* storageType = configOptions.storage
ResolvedSelector(options, storageType) ==
    IF storageType # "undefined" THEN storageType
    ELSE IF "storage" \in DOMAIN options THEN options.storage
    ELSE "undefined"

\* createStorage(storageType, configOptions[`${storageType}Config`])
createResolved(options, selector, cache, heap, libs, fileMap, dirSet) ==
    createStorage(selector, ConfigBlock(options, selector), cache, heap, libs, fileMap,
                  dirSet)

\* getStorage(storageType): the factory's result
getStorage(storageType, cache, heap, libs, fileMap, dirSet) ==
    IF getOptions = Undefined
    THEN \* 'storageFactory' in undefined throws
         FactoryFail(TypeError, cache, heap, dirSet)
    ELSE IF "storageFactory" \in DOMAIN getOptions
    THEN \* new StorageClass(classOptions.options)
         [ok |-> TRUE, inst |-> Len(heap) + 1, err |-> NoError, cache |-> cache,
          heap |-> Append(heap, [type |-> getOptions.storageFactory,
                                 options |-> getOptions.options]),
          dirs |-> dirSet]
    ELSE createResolved(getOptions, ResolvedSelector(getOptions, storageType), cache,
                        heap, libs, fileMap, dirSet)

\* the state after a getStorage call that settled with r
GetStorageSettled(storageType, r) ==
    /\ storageInstances' = r.cache
    /\ adapters' = r.heap
    /\ dirs' = r.dirs
    /\ fret' = [op |-> "getStorage", storageType |-> storageType,
                options |-> serviceOptions, ok |-> r.ok, inst |-> r.inst,
                err |-> r.err, prev |-> 0, built |-> Len(r.heap) - Len(adapters)]

GetStorage(storageType) ==
    /\ Len(adapters) < MaxAdapters
    /\ GetStorageSettled(storageType,
                         getStorage(storageType, storageInstances, adapters, installed,
                                    files, dirs))
    /\ UNCHANGED <<serviceOptions, installed, made, missingSeen>>

\* getUrl of a filesystem adapter constructed with options:
\* this.options.baseUrl.replace(...) throws when baseUrl is undefined
localGetUrl(options, urlKey) ==
    IF urlKey # <<>> /\ StartsWith(urlKey, Http) THEN Ok(urlKey)
    ELSE IF urlKey = <<>> THEN Ok(<<>>)
    ELSE IF "baseUrl" \notin DOMAIN options THEN Err(TypeError)
    ELSE Ok(getUrlWith(options.baseUrl, urlKey))

GetUrlSettled(inst, r) ==
    fret' = [op |-> "getUrl", storageType |-> adapters[inst].type,
             options |-> adapters[inst].options, ok |-> r.ok, inst |-> inst,
             err |-> IF r.ok THEN NoError ELSE r.err, prev |-> 0, built |-> 0]

\* adapter.getUrl(urlKey) on a filesystem adapter the factory returned
AdapterGetUrl(inst, urlKey) ==
    /\ adapters[inst].type = EnumLocal
    /\ GetUrlSettled(inst, localGetUrl(adapters[inst].options, urlKey))
    /\ UNCHANGED <<serviceOptions, storageInstances, adapters, installed, made, missingSeen>>

\* ------------------------------------------------------------------------
\* Uploads: values
\* ------------------------------------------------------------------------
\* uuidv4() results
Tokens == {<<"t">>, <<"u">>}

UploadFiles ==
    {[fieldname |-> "file", originalname |-> <<"a">>, mimetype |-> "text/plain",
      buffer |-> b] : b \in Bufs}

NoFile == [fieldname |-> "none", originalname |-> <<>>, mimetype |-> "none", buffer |-> <<>>]

\* what the overrides of an application throw
NameRejected == [name |-> "BadRequestException", message |-> <<"Invalid file type">>]
DistRejected == [name |-> "BadRequestException", message |-> <<"Invalid destination">>]
\* path.join given an argument that is not a string
InvalidArgType == [name |-> "TypeError", message |-> <<"ERR_INVALID_ARG_TYPE">>]
StreamFailed == [name |-> "Error", message |-> <<"stream failed">>]
BackendFailed == [name |-> "Error", message |-> <<"backend request failed">>]

NameOverrides == {NoFn, Returns(<<"n">>), Throws(NameRejected)}
DistOverrides == {NoFn, Returns(<<"d">>), Throws(DistRejected)}

\* FileStorageInterceptorOptions (no storageOptions, prefix, mapToRequestBody)
InterceptorOptions ==
    [fileName : NameOverrides, fileDist : DistOverrides,
     storageType : {"undefined", EnumS3, EnumAzure}]

NoInterceptorOptions == [fileName |-> NoFn, fileDist |-> NoFn, storageType |-> "undefined"]

\* registry entries of the declarative shape that name a selector
UploadEntries == {o \in RegistryEntries : "storage" \in DOMAIN o}

\* the date the clock shows
Today == [year |-> 2026, month |-> 11, day |-> 3]

Digits == <<"0", "1", "2", "3", "4", "5", "6", "7", "8", "9">>

\* moment().format('YYYY' | 'MM' | 'DD'): zero-padded decimal of the width
RECURSIVE Pad(_, _)
Pad(n, width) ==
    IF width = 0 THEN <<>> ELSE Pad(n \div 10, width - 1) \o <<Digits[(n % 10) + 1]>>

\* path.basename on a POSIX host
basename(path) ==
    LET parts == NonEmptyParts(Split(path, Slash))
    IN  IF parts = <<>> THEN <<>> ELSE parts[Len(parts)]

\* ------------------------------------------------------------------------
\* Calling a function value
\* ------------------------------------------------------------------------
NoValue == [ok |-> TRUE, defined |-> FALSE, val |-> <<>>, err |-> NoError]
Value(v) == [ok |-> TRUE, defined |-> TRUE, val |-> v, err |-> NoError]
Raise(error) == [ok |-> FALSE, defined |-> FALSE, val |-> <<>>, err |-> error]

\* the interceptor's fileDist closure over the interceptor's and the backend
\* configuration's fileDist
Wrapper(first, second) == [kind |-> "wrapper", first |-> first, second |-> second]

CallPlain(fn) ==
    CASE fn.kind = "returns" -> Value(fn.val)
      [] fn.kind = "throws" -> Raise(fn.err)
      [] OTHER -> Raise(TypeError)

\* if (interceptorOptions?.fileDist) return interceptorOptions.fileDist(file, req);
\* return storageConfig?.fileDist?.(file, req);
Call(fn) ==
    IF fn.kind = "wrapper"
    THEN IF fn.first.kind # "undefined" THEN CallPlain(fn.first)
         ELSE IF fn.second.kind # "undefined" THEN CallPlain(fn.second)
         ELSE NoValue
    ELSE CallPlain(fn)

Field(options, f) ==
    IF options # Undefined /\ f \in DOMAIN options THEN options[f] ELSE NoFn

\* ------------------------------------------------------------------------
\* Naming and placement of an uploaded file (constructor defaults and the
\* head of _handleFile)
\* ------------------------------------------------------------------------
\* this.fileNameFunction(file, req)
fileNameFunction(adapter, file, token) ==
    IF Field(adapter.options, "fileName").kind # "undefined"
    THEN Call(adapter.options.fileName)
    ELSE Value(token \o <<"-">> \o file.originalname)

DatedUnder(base, date) ==
    join(join(join(base, Pad(date.year, 4)), Pad(date.month, 2)), Pad(date.day, 2))

\* this.fileDistFunction(file, req)
fileDistFunction(adapter, date) ==
    IF Field(adapter.options, "fileDist").kind # "undefined"
    THEN Call(adapter.options.fileDist)
    ELSE IF adapter.type = EnumLocal
    THEN Value(DatedUnder(constructorRoot(adapter.options), date))
    ELSE Value(DatedUnder(<<"u", "p", "l", "o", "a", "d", "s">>, date))

Named(filePath) == [ok |-> TRUE, path |-> filePath, err |-> NoError, threw |-> NoError]
Unnamed(error, thrown) == [ok |-> FALSE, path |-> <<>>, err |-> error, threw |-> thrown]

\* (mutant) an error thrown by an override is reported as a new error
Joined_wraps(dist, name) ==
    IF ~dist.ok THEN Unnamed(BackendFailed, dist.err)
    ELSE IF ~name.ok THEN Unnamed(BackendFailed, name.err)
    ELSE IF ~dist.defined \/ ~name.defined THEN Unnamed(InvalidArgType, NoError)
    ELSE Named(join(dist.val, name.val))

\* const filePath = join(dist, fileName), after both awaits; a rejected await
\* leaves the try block. err is what the surrounding catch receives, threw
\* what an override threw
Joined(dist, name) ==
    IF ~dist.ok THEN Unnamed(dist.err, dist.err)
    ELSE IF ~name.ok THEN Unnamed(name.err, name.err)
    ELSE IF ~dist.defined \/ ~name.defined THEN Unnamed(InvalidArgType, NoError)
    ELSE Named(join(dist.val, name.val))

\* const dist = await this.fileDistFunction(file, req);
\* const fileName = await this.fileNameFunction(file, req);
\* const filePath = join(dist, fileName);
Naming(adapter, file, token, date) ==
    Joined(fileDistFunction(adapter, date), fileNameFunction(adapter, file, token))

\* ------------------------------------------------------------------------
\* Uploads: state
\* ------------------------------------------------------------------------
VARIABLES
    up,         \* the upload request in progress: position, adapter, file, what
                \*   the completion callback received, and history for the request
    body,       \* request.body of the request: field name -> mapped value
    objects,    \* objects of the remote stores: <<backend, key>> -> content
    today,      \* the date of the clock
    nUploads    \* number of upload requests received so far

uploadVars == <<up, body, objects, today, nUploads>>

MaxUploads == 1

NoInfo == [key |-> <<>>]

NoUp ==
    [pc |-> "idle", inst |-> 0, file |-> NoFile, io |-> NoInterceptorOptions,
     key |-> <<>>, threw |-> NoError, putCalls |-> 0, cbCount |-> 0, cbErr |-> NoError,
     cbInfo |-> NoInfo, err |-> NoError, files0 |-> <<>>, objects0 |-> <<>>]

UploadIdle ==
    /\ up = NoUp
    /\ body = <<>>
    /\ objects = <<>>
    /\ today = Today
    /\ nUploads = 0

\* cb(error) / cb(null, info) as called by the upload handler
CbError(u, error) ==
    [u EXCEPT !.pc = "cb", !.cbCount = @ + 1, !.cbErr = error]

CbInfo(u, info) ==
    [u EXCEPT !.pc = "cb", !.cbCount = @ + 1, !.cbInfo = info]

\* ------------------------------------------------------------------------
\* FileStorageInterceptor.intercept up to the multer middleware
\* ------------------------------------------------------------------------
\* storageType = interceptorOptions?.storageType ?? configOptions.storage, or
\* ?? FileStorageEnum.LOCAL for an entry without 'storage'
InterceptorSelector(options, io) ==
    IF io.storageType # "undefined" THEN io.storageType
    ELSE IF "storage" \in DOMAIN options THEN options.storage
    ELSE EnumLocal

\* storageConfig: the selector's block, or {} for an entry without 'storage'
\* ({} and undefined spread to the same storageOptions)
InterceptorConfig(options, selector) ==
    IF "storage" \in DOMAIN options THEN ConfigBlock(options, selector) ELSE Undefined

\* { ...storageConfig, fileName: io.fileName || storageConfig?.fileName,
\*   fileDist: (file, req) => ..., prefix: undefined }
StorageOptions(storageConfig, io) ==
    LET configured == IF storageConfig = Undefined THEN <<>> ELSE storageConfig
    IN  [fileName |-> IF io.fileName.kind # "undefined" THEN io.fileName
                      ELSE Field(storageConfig, "fileName"),
         fileDist |-> Wrapper(io.fileDist, Field(storageConfig, "fileDist"))]
        @@ configured

\* const storage = await StorageFactory.createStorage(storageType, storageOptions)
createConfigured(storageType, storageConfig, io, cache, heap, libs, fileMap, dirSet) ==
    createStorage(storageType, StorageOptions(storageConfig, io), cache, heap, libs,
                  fileMap, dirSet)

interceptorStorage(options, io, cache, heap, libs, fileMap, dirSet) ==
    createConfigured(InterceptorSelector(options, io),
                     InterceptorConfig(options, InterceptorSelector(options, io)), io,
                     cache, heap, libs, fileMap, dirSet)

\* the state after the interceptor's createStorage call, taken alone, settled
InterceptorSettled(io, r) ==
    /\ storageInstances' = r.cache
    /\ adapters' = r.heap
    /\ dirs' = r.dirs
    /\ fret' = [op |-> "intercept", storageType |-> io.storageType,
                options |-> serviceOptions, ok |-> r.ok, inst |-> r.inst,
                err |-> r.err, prev |-> 0, built |-> Len(r.heap) - Len(adapters)]

\* FileStorageInterceptor.intercept up to its createStorage call, for any
\* registry entry
InterceptorCreate(io) ==
    /\ serviceOptions # Undefined
    /\ Len(adapters) < MaxAdapters
    /\ InterceptorSettled(io, interceptorStorage(getOptions, io, storageInstances,
                                                 adapters, installed, files, dirs))
    /\ UNCHANGED <<serviceOptions, installed, made, missingSeen>>

\* the state after the interceptor's createStorage call settled with r
Intercepted(io, file, r) ==
    /\ storageInstances' = r.cache
    /\ adapters' = r.heap
    /\ dirs' = r.dirs
    /\ up' = IF r.ok
             THEN [NoUp EXCEPT !.pc = "handle", !.inst = r.inst, !.file = file,
                               !.io = io, !.files0 = files, !.objects0 = objects]
             ELSE [NoUp EXCEPT !.pc = "failed", !.file = file, !.io = io,
                               !.err = r.err]

\* a request with one file part for the intercepted field arrives; uploads to
\* the local backend are followed for entries that carry a local block
Intercept(io, file) ==
    /\ up.pc = "idle"
    /\ Quiescent
    /\ nUploads < MaxUploads
    /\ nUploads' = nUploads + 1
    /\ serviceOptions \in UploadEntries
    /\ InterceptorSelector(getOptions, io) = EnumLocal
          => ConfigBlock(getOptions, EnumLocal) # Undefined
    /\ Intercepted(io, file, interceptorStorage(getOptions, io, storageInstances,
                                                adapters, installed, files, dirs))
    /\ body' = <<>>
    /\ UNCHANGED <<files, calls, ret, lastPut, deleted, nCalls>>
    /\ UNCHANGED <<serviceOptions, installed, fret, made, missingSeen, objects, today>>

\* ------------------------------------------------------------------------
\* _handleFile of the three adapters
\* ------------------------------------------------------------------------
UploadAdapter == adapters[up.inst]

\* the catch block's cb(error) after a failed naming
NamingFailed(u, named) == [CbError(u, named.err) EXCEPT !.threw = named.threw]

\* const urlKey = this.pathToUrl(filePath) / const key = join(dist, fileName),
\* then file.stream.pipe(...); or the catch block's cb(error)
Piped(u, adapter, named) ==
    IF ~named.ok THEN NamingFailed(u, named)
    ELSE [u EXCEPT !.pc = "streaming",
                   !.key = IF adapter.type = EnumLocal
                           THEN pathToUrl(named.path) ELSE named.path]

\* the S3 adapter's 'end' listener: name the file, then putFile(buffer, key)
Ended(u, named) ==
    IF ~named.ok THEN NamingFailed(u, named)
    ELSE [u EXCEPT !.pc = "putting", !.putCalls = @ + 1, !.key = named.path]

\* multer calls _handleFile: the local and the Azure adapter name the file
\* first and then pipe the stream, the S3 adapter only attaches listeners
HandleFile ==
    /\ up.pc = "handle"
    /\ \E token \in Tokens :
          up' = IF UploadAdapter.type = EnumS3
                THEN [up EXCEPT !.pc = "streaming"]
                ELSE Piped(up, UploadAdapter, Naming(UploadAdapter, up.file, token, today))
    /\ UNCHANGED <<body, objects, today, nUploads>>
    /\ UNCHANGED fsVars
    /\ UNCHANGED factoryVars

\* the file stream ends: the buffer is complete. The local adapter calls its
\* putFile, the Azure adapter its own; the S3 adapter names the file now and
\* then calls putFile
StreamEnd ==
    /\ up.pc = "streaming"
    /\ IF UploadAdapter.type = EnumLocal
       THEN /\ PutFile(1, up.file.buffer, up.key)
            /\ up' = [up EXCEPT !.pc = "putting", !.putCalls = @ + 1]
       ELSE /\ \E token \in Tokens :
                 up' = IF UploadAdapter.type = EnumAzure
                       THEN [up EXCEPT !.pc = "putting", !.putCalls = @ + 1]
                       ELSE Ended(up, Naming(UploadAdapter, up.file, token, today))
            /\ UNCHANGED fsVars
    /\ UNCHANGED <<body, objects, today, nUploads>>
    /\ UNCHANGED factoryVars

\* the file stream fails: the S3 and the Azure adapter pass the error to the
\* callback, the local adapter has no listener for it
StreamError ==
    /\ up.pc = "streaming"
    /\ up' = IF UploadAdapter.type = EnumLocal
             THEN [up EXCEPT !.pc = "hung"]
             ELSE CbError(up, StreamFailed)
    /\ UNCHANGED <<body, objects, today, nUploads>>
    /\ UNCHANGED fsVars
    /\ UNCHANGED factoryVars

\* { ...uploadedFile, fieldName, originalName, mimetype }
FileInfo(uploadedFile, file) ==
    [fieldName |-> file.fieldname, originalName |-> file.originalname,
     mimetype |-> file.mimetype] @@ uploadedFile

\* the local adapter's putFile has settled (or will never settle)
PutSettled ==
    /\ up.pc = "putting"
    /\ UploadAdapter.type = EnumLocal
    /\ ret.op = "putFile"
    /\ ret.settled # "none"
    /\ up' = CASE ret.settled = "resolved" -> CbInfo(up, FileInfo(ret.rec, up.file))
               [] ret.settled = "rejected" -> CbError(up, FsError(ret.err))
               [] OTHER -> [up EXCEPT !.pc = "hung"]
    /\ ret' = NoRet
    /\ UNCHANGED <<files, dirs, calls, lastPut, deleted, nCalls>>
    /\ UNCHANGED <<body, objects, today, nUploads>>
    /\ UNCHANGED factoryVars

TextField(options, f) == IF f \in DOMAIN options THEN options[f] ELSE "undefined"

\* S3Storage.getUrl
getUrlS3(options, key) ==
    IF "cloudFrontUrl" \in DOMAIN options
    THEN [base |-> <<options.cloudFrontUrl>>, key |-> key]
    ELSE [base |-> <<"https://", TextField(options, "bucket"), ".s3.amazonaws.com">>,
          key |-> key]

\* AzureStorage.getUrl
getUrlAzure(options, key) ==
    [base |-> <<"https://", TextField(options, "account"), ".blob.core.windows.net",
                TextField(options, "container")>>,
     key |-> key]

\* the record S3Storage.putFile returns; size is the ContentLength of the HEAD
putRecordS3(options, fileContent, key, contentLength) ==
    [originalName |-> basename(key), fileName |-> basename(key), size |-> contentLength,
     buffer |-> fileContent, fullPath |-> key, key |-> key, url |-> getUrlS3(options, key)]

\* the record AzureStorage.putFile returns
putRecordAzure(options, buffer, key) ==
    [originalName |-> basename(key), fileName |-> basename(key), size |-> Len(buffer),
     buffer |-> buffer, key |-> key, fullPath |-> key, url |-> getUrlAzure(options, key)]

\* putFile of the S3 adapter (PutObject, then HeadObject) or of the Azure
\* adapter (uploadData), and the rest of the upload handler
ObjectPut ==
    /\ up.pc = "putting"
    /\ UploadAdapter.type \in {EnumS3, EnumAzure}
    /\ \E outcome \in {"ok", "putFails", "headFails"} :
          LET store == <<UploadAdapter.type, up.key>>
              stored == (store :> up.file.buffer) @@ objects
          IN  CASE outcome = "putFails" ->
                     /\ up' = CbError(up, BackendFailed)
                     /\ objects' = objects
                [] outcome = "headFails" /\ UploadAdapter.type = EnumS3 ->
                     /\ up' = CbError(up, BackendFailed)
                     /\ objects' = stored
                [] OTHER ->
                     /\ objects' = stored
                     /\ up' = CbInfo(up, FileInfo(
                                IF UploadAdapter.type = EnumS3
                                THEN putRecordS3(UploadAdapter.options, up.file.buffer,
                                                 up.key, Len(stored[store]))
                                ELSE putRecordAzure(UploadAdapter.options, up.file.buffer,
                                                    up.key),
                                up.file))
    /\ UNCHANGED <<body, today, nUploads>>
    /\ UNCHANGED fsVars
    /\ UNCHANGED factoryVars

\* ------------------------------------------------------------------------
\* After the callback: multer ends the middleware, the interceptor maps the
\* stored key into the request body (applyFileKeyMapping, default mapping)
\* ------------------------------------------------------------------------
Complete ==
    /\ up.pc = "cb"
    /\ IF up.cbErr # NoError
       THEN /\ up' = [up EXCEPT !.pc = "failed", !.err = up.cbErr]
            /\ body' = body
       ELSE /\ up' = [up EXCEPT !.pc = "done"]
            /\ body' = (up.file.fieldname :> up.cbInfo.key) @@ body
    /\ UNCHANGED <<objects, today, nUploads>>
    /\ UNCHANGED fsVars
    /\ UNCHANGED factoryVars

\* the request is over
Finish ==
    /\ up.pc \in {"done", "failed"}
    /\ up' = NoUp
    /\ UNCHANGED <<body, objects, today, nUploads>>
    /\ UNCHANGED fsVars
    /\ UNCHANGED factoryVars

\* ------------------------------------------------------------------------
\* Callers that overlap: the providers of NestFileStorageModule that set the
\* registry at bootstrap, and calls to the filesystem adapter in flight at
\* the same time
\* ------------------------------------------------------------------------
VARIABLES
    boot,       \* the FILE_STORAGE_OPTIONS providers registered by forRoot and
                \*   forRootAsync, and how far the factory of each has run
    lastSet,    \* history: the argument of the setOptions call executed last
    done        \* history: per call slot, how the call in it settled

concVars == <<boot, lastSet, done>>

MaxProviders == 2
Providers == 1..MaxProviders

NoProvider == [kind |-> "none", pc |-> "absent", options |-> Undefined]

ConcIdle ==
    /\ boot = [p \in Providers |-> NoProvider]
    /\ lastSet = None
    /\ done = [c \in RaceSlots |-> NoRet]

\* NestFileStorageModule.forRoot(options): registers a provider whose
\* factory holds options
ForRoot(p, options) ==
    /\ boot[p].pc = "absent"
    /\ boot' = [boot EXCEPT ![p] = [kind |-> "forRoot", pc |-> "registered",
                                    options |-> options]]
    /\ UNCHANGED <<factoryVars, lastSet>>

\* NestFileStorageModule.forRootAsync(options): registers a provider whose
\* factory awaits the caller's useFactory or createFileStorageOptions
ForRootAsync(p) ==
    /\ boot[p].pc = "absent"
    /\ boot' = [boot EXCEPT ![p] = [kind |-> "forRootAsync", pc |-> "registered",
                                    options |-> Undefined]]
    /\ UNCHANGED <<factoryVars, lastSet>>

\* a setOptions call by provider p, with the history of the call
ProviderSets(p, options) ==
    /\ SetOptions(options)
    /\ lastSet' = Some(options)
    /\ boot' = [boot EXCEPT ![p].pc = "resolved", ![p].options = options]

\* the factory of a forRoot provider: setOptions(options); return options
ForRootFactory(p) ==
    /\ boot[p].kind = "forRoot"
    /\ boot[p].pc = "registered"
    /\ ProviderSets(p, boot[p].options)

\* the factory of a forRootAsync provider up to its await
AsyncFactory(p) ==
    /\ boot[p].kind = "forRootAsync"
    /\ boot[p].pc = "registered"
    /\ boot' = [boot EXCEPT ![p].pc = "awaiting"]
    /\ UNCHANGED <<factoryVars, lastSet>>

\* the awaited promise resolves with fileStorageOptions: setOptions, return
AsyncFactoryResolved(p, fileStorageOptions) ==
    /\ boot[p].pc = "awaiting"
    /\ ProviderSets(p, fileStorageOptions)

\* the awaited promise rejects: the factory rejects, setOptions is not called
AsyncFactoryRejected(p) ==
    /\ boot[p].pc = "awaiting"
    /\ boot' = [boot EXCEPT ![p].pc = "rejected"]
    /\ UNCHANGED <<factoryVars, lastSet>>

\* FileStorageService.setOptions(options) called directly
DirectSetOptions(options) ==
    /\ SetOptions(options)
    /\ lastSet' = Some(options)
    /\ UNCHANGED boot

\* keys and buffers of overlapping calls: two spellings of one file and
\* another file; buffers of different lengths
RaceKeys == {<<"a">>, <<".", Slash, "a">>, <<"b">>}
RaceBufs == {<<0, 1>>, <<1>>}

\* a call issued in slot c while other calls may be in flight; done[c] is
\* how it settled, once it has
Issued(c) == done' = [done EXCEPT ![c] = ret']

RacePutFile(c, fileContent, urlKey) ==
    /\ PutFileWith(c, fileContent, urlKey, Undefined)
    /\ Issued(c)
    /\ UNCHANGED <<boot, lastSet>>

RaceCopyFile(c, oldUrlKey, newUrlKey) ==
    /\ CopyFile(c, oldUrlKey, newUrlKey)
    /\ Issued(c)
    /\ UNCHANGED <<boot, lastSet>>

\* the callback of fs.writeFile or fs.copyFile of the call in slot c
RaceCallback(c) ==
    /\ PutCallback(c) \/ CopyCallback(c)
    /\ Issued(c)
    /\ UNCHANGED <<boot, lastSet>>

\* ------------------------------------------------------------------------
\* The key/path codec and getUrl of the filesystem adapter, applied to
\* arguments of any configuration
\* ------------------------------------------------------------------------
VARIABLES
    probe,      \* the last application of getUrl or of the codec: the adapter's
                \*   configuration, the argument and the result
    rret        \* how the last call to an S3 or Azure adapter settled

adapterVars == <<probe, rret>>

MaxKeyLen == 3

\* keys and paths: every string over a letter, the slash and the dot up to
\* the bound, and strings that begin with "http" or with another scheme
ProbeKeys ==
    SeqsUpTo({"u", Slash, "."}, MaxKeyLen)
        \cup { Http \o <<":", Slash, Slash, "x">>, Http \o <<"d">>,
               <<"f", "t", "p", ":", Slash, Slash, "x">> }

\* options.baseUrl values: no, one and two trailing slashes
BaseUrls ==
    { Http \o <<":", Slash, Slash, "h", Slash, "u">>,
      Http \o <<":", Slash, Slash, "h", Slash, "u", Slash>>,
      Http \o <<":", Slash, Slash, "h", Slash, "u", Slash, Slash>> }

\* options.rootPath values
ProbeRoots ==
    { <<".", Slash, "u">>, <<"u">>, <<"u", Slash>>, <<Slash, "u">>, <<".">>,
      <<".", ".", Slash, "u">> }

NoProbe ==
    [op |-> "none", base |-> <<>>, root |-> <<>>, key |-> <<>>, out |-> <<>>,
     again |-> <<>>]

NoRemoteRec ==
    [originalName |-> <<>>, fileName |-> <<>>, size |-> 0, buffer |-> <<>>,
     key |-> <<>>, fullPath |-> <<>>, url |-> [base |-> <<>>, key |-> <<>>]]

\* no presign request was made
NoSign == [made |-> FALSE, input |-> Undefined, expiresIn |-> None]

\* a settled call to an S3 or Azure adapter: requests are the backend
\* requests it made, failed says that one of them failed, sign is the
\* request handed to the presigner
NoRemote ==
    [op |-> "none", backend |-> "none", key |-> <<>>, buf |-> <<>>, opts |-> Undefined,
     settled |-> "none", err |-> NoError, data |-> <<>>, rec |-> NoRemoteRec,
     requests |-> <<>>, failed |-> FALSE, logged |-> FALSE, sign |-> NoSign,
     reported |-> 0, wrote |-> None, headed |-> None]

AdapterIdle ==
    /\ probe = NoProbe
    /\ rret = NoRemote

\* adapter.getUrl(urlKey) of an adapter configured with baseUrl
ProbeUrl(configuredBase, urlKey) ==
    /\ probe = NoProbe
    /\ probe' = [NoProbe EXCEPT !.op = "getUrl", !.base = configuredBase,
                                !.key = urlKey,
                                !.out = getUrlWith(configuredBase, urlKey)]
    /\ UNCHANGED <<fsVars, factoryVars, uploadVars, rret, concVars>>

\* pathToUrl(getFullPath(urlKey)) of an adapter whose rootPath is root
encodeDecoded(root, urlKey) == pathToUrlIn(root, getFullPathIn(root, urlKey))

ProbeRoundTrip(configuredRoot, urlKey) ==
    /\ probe = NoProbe
    /\ probe' = [NoProbe EXCEPT !.op = "roundTrip",
                                !.root = constructorRoot([rootPath |-> configuredRoot]),
                                !.key = urlKey,
                                !.out = encodeDecoded(
                                           constructorRoot([rootPath |-> configuredRoot]),
                                           urlKey)]
    /\ UNCHANGED <<fsVars, factoryVars, uploadVars, rret, concVars>>

\* pathToUrl(filePath), and pathToUrl of its result
Encoded(root, filePath, once) ==
    [NoProbe EXCEPT !.op = "pathToUrl", !.root = root, !.key = filePath, !.out = once,
                    !.again = pathToUrlIn(root, once)]

EncodedIn(root, filePath) == Encoded(root, filePath, pathToUrlIn(root, filePath))

ProbePathToUrl(configuredRoot, filePath) ==
    /\ probe = NoProbe
    /\ probe' = EncodedIn(constructorRoot([rootPath |-> configuredRoot]), filePath)
    /\ UNCHANGED <<fsVars, factoryVars, uploadVars, rret, concVars>>

\* the caller has taken the result
ProbeTaken ==
    /\ probe # NoProbe
    /\ probe' = NoProbe
    /\ UNCHANGED <<fsVars, factoryVars, uploadVars, rret, concVars>>

CodecNext ==
    \/ ProbeTaken
    \/ \E b \in BaseUrls, k \in ProbeKeys : ProbeUrl(b, k)
    \/ \E r \in ProbeRoots, k \in ProbeKeys : ProbeRoundTrip(r, k)
    \/ \E r \in ProbeRoots, k \in ProbeKeys : ProbePathToUrl(r, k)

\* ------------------------------------------------------------------------
\* The S3 and the Azure adapter called directly
\* ------------------------------------------------------------------------
RemoteBackends == {EnumS3, EnumAzure}

\* keys passed to the adapters: the empty key, a canonical key, a key with a
\* leading slash
RemoteKeys == {<<>>, <<"a">>, <<Slash, "a">>}

\* (Math.random() + 1).toString(36).substring(12)
RandomKey == <<"r">>

KeyRequiredToFetch ==
    [name |-> "Error", message |-> <<"Key is required to fetch the file from S3.">>]
KeyRequiredForDeletion ==
    [name |-> "Error", message |-> <<"File key is required for deletion.">>]

\* the options argument of putFile: none, a size, and a key (the Key of a
\* PutObjectCommandInput, the key of a record)
PutOptions == {Undefined, [size |-> 7], [Key |-> <<"b">>, key |-> <<"b">>]}

\* the second argument of getSignedUrl
SignOptions == {Undefined, [expiresIn |-> 60]}

\* what a backend request can come to besides success
Outcomes == {"ok", "fails"}

AdapterOptions(backend) == IF backend = EnumS3 THEN S3Config ELSE AzureConfig

Remote(op, backend, key) ==
    [NoRemote EXCEPT !.op = op, !.backend = backend, !.key = key, !.settled = "resolved"]

Rejected(r, error) == [r EXCEPT !.settled = "rejected", !.err = error]

\* a call's effect: the store afterwards and what the call settled with
Effect(store, r) == [store |-> store, r |-> r]

Stored(store, backend, key) == <<backend, key>> \in DOMAIN store

\* S3Storage.getFile / AzureStorage.getFile
remoteGetFile(store, backend, key, outcome) ==
    IF backend = EnumS3 /\ key = <<>>
    THEN Effect(store, Rejected(Remote("getFile", backend, key), KeyRequiredToFetch))
    ELSE IF outcome = "fails" \/ ~Stored(store, backend, key)
    THEN Effect(store, [Rejected(Remote("getFile", backend, key), BackendFailed)
                           EXCEPT !.requests = <<"get">>, !.failed = TRUE])
    ELSE Effect(store, [Remote("getFile", backend, key)
                           EXCEPT !.requests = <<"get">>,
                                  !.data = store[<<backend, key>>]])

\* putParams = { Bucket, Key: fileKey, Body, ContentDisposition, ...options }:
\* the Key the PutObject request carries
PutParamsKey(fileKey, options) ==
    IF options # Undefined /\ "Key" \in DOMAIN options THEN options.Key ELSE fileKey

\* the S3 call as far as its requests go: PutObject wrote putKey, and
\* HeadObject, if it came to it, asked for fileKey
S3Put(fileContent, key, options, requests, putKey, headKey) ==
    [Remote("putFile", EnumS3, key)
        EXCEPT !.buf = fileContent, !.opts = options, !.requests = requests,
               !.wrote = putKey, !.headed = headKey]

S3PutFailed(r) == [Rejected(r, BackendFailed) EXCEPT !.failed = TRUE]

\* fileName = basename(key) names the record, fileKey addresses it
S3Record(key, rec) == [rec EXCEPT !.originalName = basename(key), !.fileName = basename(key)]

\* S3Storage.putFile: PutObject with putParams, then HeadObject on fileKey
\* for the size; HeadObject fails when the request fails or fileKey holds no
\* object
s3PutFile(store, fileContent, key, options, outcome, headOutcome, fileKey, putKey) ==
    IF outcome = "fails"
    THEN Effect(store, S3PutFailed(S3Put(fileContent, key, options, <<"put">>,
                                         Some(putKey), None)))
    ELSE IF headOutcome = "fails" \/ (putKey # fileKey /\ ~Stored(store, EnumS3, fileKey))
    THEN Effect((<<EnumS3, putKey>> :> fileContent) @@ store,
                S3PutFailed(S3Put(fileContent, key, options, <<"put", "head">>,
                                  Some(putKey), Some(fileKey))))
    ELSE Effect((<<EnumS3, putKey>> :> fileContent) @@ store,
                [S3Put(fileContent, key, options, <<"put", "head">>, Some(putKey),
                       Some(fileKey))
                    EXCEPT !.reported =
                               Len(((<<EnumS3, putKey>> :> fileContent) @@ store)
                                       [<<EnumS3, fileKey>>]),
                           !.rec = S3Record(key,
                               putRecordS3(S3Config, fileContent, fileKey,
                                   Len(((<<EnumS3, putKey>> :> fileContent) @@ store)
                                           [<<EnumS3, fileKey>>])))])

\* AzureStorage.putFile: uploadData, the record carries buffer.length and
\* the caller's options
azurePutFile(store, buffer, key, options, outcome) ==
    IF outcome = "fails"
    THEN Effect(store, [Rejected(Remote("putFile", EnumAzure, key), BackendFailed)
                           EXCEPT !.buf = buffer, !.opts = options,
                                  !.requests = <<"put">>, !.failed = TRUE])
    ELSE Effect((<<EnumAzure, key>> :> buffer) @@ store,
                [Remote("putFile", EnumAzure, key)
                    EXCEPT !.buf = buffer, !.opts = options, !.requests = <<"put">>,
                           !.wrote = Some(key),
                           !.reported = Len(buffer),
                           !.rec = Spread(putRecordAzure(AzureConfig, buffer, key),
                                          options)])

remotePutFile(store, backend, fileContent, key, options, outcome, headOutcome) ==
    IF backend = EnumS3
    THEN s3PutFile(store, fileContent, key, options, outcome, headOutcome,
                   IF key = <<>> THEN RandomKey ELSE key,
                   PutParamsKey(IF key = <<>> THEN RandomKey ELSE key, options))
    ELSE azurePutFile(store, fileContent, key, options, outcome)

Removed(store, backend, key) ==
    [o \in DOMAIN store \ {<<backend, key>>} |-> store[o]]

\* S3Storage.deleteFile: the error of the DeleteObject request is thrown on
s3DeleteFile(store, key, outcome) ==
    IF key = <<>>
    THEN Effect(store, Rejected(Remote("deleteFile", EnumS3, key), KeyRequiredForDeletion))
    ELSE IF outcome = "fails"
    THEN Effect(store, [Rejected(Remote("deleteFile", EnumS3, key), BackendFailed)
                           EXCEPT !.requests = <<"delete">>, !.failed = TRUE])
    ELSE Effect(Removed(store, EnumS3, key),
                [Remote("deleteFile", EnumS3, key) EXCEPT !.requests = <<"delete">>])

\* (mutant) the error of blobClient.delete() is thrown on
azureDeleteFile_throws(store, key, outcome) ==
    IF outcome = "fails" \/ ~Stored(store, EnumAzure, key)
    THEN Effect(store, [Rejected(Remote("deleteFile", EnumAzure, key), BackendFailed)
                           EXCEPT !.requests = <<"delete">>, !.failed = TRUE])
    ELSE Effect(Removed(store, EnumAzure, key),
                [Remote("deleteFile", EnumAzure, key) EXCEPT !.requests = <<"delete">>])

\* AzureStorage.deleteFile: the error of blobClient.delete() (a failed
\* request, a blob that does not exist) is logged and not thrown
azureDeleteFile(store, key, outcome) ==
    IF outcome = "fails" \/ ~Stored(store, EnumAzure, key)
    THEN Effect(store, [Remote("deleteFile", EnumAzure, key)
                           EXCEPT !.requests = <<"delete">>, !.failed = TRUE,
                                  !.logged = TRUE])
    ELSE Effect(Removed(store, EnumAzure, key),
                [Remote("deleteFile", EnumAzure, key) EXCEPT !.requests = <<"delete">>])

remoteDeleteFile(store, backend, key, outcome) ==
    IF backend = EnumS3 THEN s3DeleteFile(store, key, outcome)
    ELSE azureDeleteFile(store, key, outcome)

\* S3Storage.getSignedUrl: getSignedUrl(this.s3, new GetObjectCommand({ Bucket,
\* Key, ...objectConfig })) with no options argument, so no expiresIn reaches
\* the presigner
s3GetSignedUrl(key, objectConfig) ==
    IF key = <<>> THEN Remote("getSignedUrl", EnumS3, key)
    ELSE [Remote("getSignedUrl", EnumS3, key)
             EXCEPT !.opts = objectConfig,
                    !.sign = [made |-> TRUE,
                              input |-> Spread([Bucket |-> S3Config.bucket, Key |-> key],
                                               objectConfig),
                              expiresIn |-> None]]

\* the state after a call that had the effect e
RemoteSettled(e) ==
    /\ objects' = e.store
    /\ rret' = e.r

RemoteIdle == Quiescent /\ rret = NoRemote /\ nCalls < MaxCalls

RemoteGetFile(backend, key, outcome) ==
    /\ RemoteIdle
    /\ RemoteSettled(remoteGetFile(objects, backend, key, outcome))
    /\ nCalls' = nCalls + 1
    /\ UNCHANGED <<files, dirs, calls, ret, lastPut, deleted>>
    /\ UNCHANGED <<factoryVars, up, body, today, nUploads, probe, concVars>>

RemotePutFile(backend, fileContent, key, options, outcome, headOutcome) ==
    /\ RemoteIdle
    /\ RemoteSettled(remotePutFile(objects, backend, fileContent, key, options, outcome,
                                   headOutcome))
    /\ nCalls' = nCalls + 1
    /\ UNCHANGED <<files, dirs, calls, ret, lastPut, deleted>>
    /\ UNCHANGED <<factoryVars, up, body, today, nUploads, probe, concVars>>

RemoteDeleteFile(backend, key, outcome) ==
    /\ RemoteIdle
    /\ RemoteSettled(remoteDeleteFile(objects, backend, key, outcome))
    /\ nCalls' = nCalls + 1
    /\ UNCHANGED <<files, dirs, calls, ret, lastPut, deleted>>
    /\ UNCHANGED <<factoryVars, up, body, today, nUploads, probe, concVars>>

GetSignedUrl(key, objectConfig) ==
    /\ RemoteIdle
    /\ rret' = s3GetSignedUrl(key, objectConfig)
    /\ nCalls' = nCalls + 1
    /\ UNCHANGED <<files, dirs, calls, ret, lastPut, deleted>>
    /\ UNCHANGED <<factoryVars, uploadVars, probe, concVars>>

\* the caller takes the result of its last call
RemoteReturn ==
    /\ rret # NoRemote
    /\ rret' = NoRemote
    /\ UNCHANGED <<fsVars, factoryVars, uploadVars, probe, concVars>>

\* ------------------------------------------------------------------------
\* Specifications
\* ------------------------------------------------------------------------
vars == <<fsVars, factoryVars, uploadVars, adapterVars, concVars>>

notFs == <<factoryVars, uploadVars, adapterVars, concVars>>

\* the filesystem adapter driven by a client that awaits each call before it
\* issues the next one
Next ==
    \/ Return /\ UNCHANGED notFs
    \/ \E k \in Keys : Quiescent /\ GetFile(k) /\ UNCHANGED notFs
    \/ \E k \in Keys : Quiescent /\ DeleteFile(k) /\ UNCHANGED notFs
    \/ \E c \in Slots, b \in Bufs, k \in Keys :
          Quiescent /\ PutFile(c, b, k) /\ UNCHANGED notFs
    \/ \E c \in Slots : PutOpen(c) /\ UNCHANGED notFs
    \/ \E c \in Slots : PutWrite(c) /\ UNCHANGED notFs
    \/ \E c \in Slots : PutCallback(c) /\ UNCHANGED notFs
    \/ \E c \in Slots, k1 \in Keys, k2 \in Keys :
          Quiescent /\ CopyFile(c, k1, k2) /\ UNCHANGED notFs
    \/ \E c \in Slots : CopyWrite(c) /\ UNCHANGED notFs
    \/ \E c \in Slots : CopyCallback(c) /\ UNCHANGED notFs

FactoryIdle ==
    /\ serviceOptions = Undefined
    /\ storageInstances = <<>>
    /\ adapters = <<>>
    /\ installed = {EnumS3, EnumAzure}
    /\ fret = NoFret
    /\ made = <<>>
    /\ missingSeen = FALSE

Init == FsInit /\ FactoryIdle /\ UploadIdle /\ AdapterIdle /\ ConcIdle

Spec == Init /\ [][Next]_vars

\* the registry and the factory, driven by a caller that awaits each call
\* before it issues the next one
FactoryNext ==
    \/ FactoryReturn /\ UNCHANGED <<fsVars, uploadVars, adapterVars, concVars>>
    \/ \E o \in RegistryEntries :
          fret = NoFret /\ SetOptions(o) /\ UNCHANGED <<fsVars, uploadVars, adapterVars, concVars>>
    \/ \E t \in Selectors, o \in Configs :
          fret = NoFret /\ CreateStorage(t, o) /\ UNCHANGED <<fsRest, uploadVars, adapterVars, concVars>>
    \/ fret = NoFret /\ ClearCache /\ UNCHANGED <<fsVars, uploadVars, adapterVars, concVars>>
    \/ \E t \in Selectors :
          fret = NoFret /\ GetStorage(t) /\ UNCHANGED <<fsRest, uploadVars, adapterVars, concVars>>
    \/ \E t \in {"undefined", EnumS3} :
          /\ fret = NoFret
          /\ InterceptorCreate([NoInterceptorOptions EXCEPT !.storageType = t])
          /\ UNCHANGED <<fsRest, uploadVars, adapterVars, concVars>>
    \/ \E i \in 1..Len(adapters) :
          /\ fret = NoFret
          /\ AdapterGetUrl(i, <<"a">>)
          /\ UNCHANGED <<fsVars, uploadVars, adapterVars, concVars>>

InitFactory == FsInit /\ FactoryInit /\ UploadIdle /\ AdapterIdle /\ ConcIdle

SpecFactory == InitFactory /\ [][FactoryNext]_vars

\* uploads through FileStorageInterceptor, one request at a time, with the
\* registry set at bootstrap
InitUpload ==
    /\ FsInit
    /\ serviceOptions \in UploadEntries
    /\ storageInstances = <<>>
    /\ adapters = <<>>
    /\ installed \in SUBSET {EnumS3, EnumAzure}
    /\ fret = NoFret
    /\ made = <<>>
    /\ missingSeen = FALSE
    /\ up = NoUp
    /\ body = <<>>
    /\ objects = <<>>
    /\ today = Today
    /\ nUploads = 0
    /\ AdapterIdle /\ ConcIdle

UploadNext ==
    \/ /\ up.pc = "idle"
       /\ \E io \in InterceptorOptions, file \in UploadFiles : Intercept(io, file)
       /\ UNCHANGED <<adapterVars, concVars>>
    \/ HandleFile /\ UNCHANGED <<adapterVars, concVars>>
    \/ StreamEnd /\ UNCHANGED <<adapterVars, concVars>>
    \/ StreamError /\ UNCHANGED <<adapterVars, concVars>>
    \/ PutOpen(1) /\ UNCHANGED notFs
    \/ PutWrite(1) /\ UNCHANGED notFs
    \/ PutCallback(1) /\ UNCHANGED notFs
    \/ PutSettled /\ UNCHANGED <<adapterVars, concVars>>
    \/ ObjectPut /\ UNCHANGED <<adapterVars, concVars>>
    \/ Complete /\ UNCHANGED <<adapterVars, concVars>>
    \/ Finish /\ UNCHANGED <<adapterVars, concVars>>

SpecUpload == InitUpload /\ [][UploadNext]_vars

\* getUrl and the codec applied to any arguments
InitCodec == FsInit /\ FactoryIdle /\ UploadIdle /\ AdapterIdle /\ ConcIdle

SpecCodec == InitCodec /\ [][CodecNext]_vars

\* the three adapters called directly by a client that awaits each call
\* before it issues the next one
AdaptersNext ==
    \/ Return /\ UNCHANGED notFs
    \/ RemoteReturn
    \/ \E k \in Keys : RemoteIdle /\ GetFile(k) /\ UNCHANGED notFs
    \/ \E k \in Keys : RemoteIdle /\ DeleteFile(k) /\ UNCHANGED notFs
    \/ \E b \in Bufs, k \in Keys, o \in PutOptions :
          RemoteIdle /\ PutFileWith(1, b, k, o) /\ UNCHANGED notFs
    \/ PutOpen(1) /\ UNCHANGED notFs
    \/ PutWrite(1) /\ UNCHANGED notFs
    \/ PutCallback(1) /\ UNCHANGED notFs
    \/ \E t \in RemoteBackends, k \in RemoteKeys, o \in Outcomes : RemoteGetFile(t, k, o)
    \/ \E t \in RemoteBackends, b \in Bufs, k \in RemoteKeys, po \in PutOptions,
          o \in Outcomes, h \in Outcomes : RemotePutFile(t, b, k, po, o, h)
    \/ \E t \in RemoteBackends, k \in RemoteKeys, o \in Outcomes :
          RemoteDeleteFile(t, k, o)
    \/ \E k \in RemoteKeys, so \in SignOptions : GetSignedUrl(k, so)

InitAdapters == FsInit /\ FactoryIdle /\ UploadIdle /\ AdapterIdle /\ ConcIdle

SpecAdapters == InitAdapters /\ [][AdaptersNext]_vars

\* the registry set by overlapping providers and by direct calls
RegistryNext ==
    \/ \E p \in Providers, o \in RegistryEntries :
          ForRoot(p, o) /\ UNCHANGED <<fsVars, uploadVars, adapterVars, done>>
    \/ \E p \in Providers :
          ForRootAsync(p) /\ UNCHANGED <<fsVars, uploadVars, adapterVars, done>>
    \/ \E p \in Providers :
          ForRootFactory(p) /\ UNCHANGED <<fsVars, uploadVars, adapterVars, done>>
    \/ \E p \in Providers :
          AsyncFactory(p) /\ UNCHANGED <<fsVars, uploadVars, adapterVars, done>>
    \/ \E p \in Providers, o \in RegistryEntries :
          AsyncFactoryResolved(p, o) /\ UNCHANGED <<fsVars, uploadVars, adapterVars, done>>
    \/ \E p \in Providers :
          AsyncFactoryRejected(p) /\ UNCHANGED <<fsVars, uploadVars, adapterVars, done>>
    \/ \E o \in RegistryEntries :
          DirectSetOptions(o) /\ UNCHANGED <<fsVars, uploadVars, adapterVars, done>>

\* calls to the filesystem adapter that overlap: a call is issued while
\* others are in flight, and the steps of the calls interleave
RaceNext ==
    \/ \E c \in RaceSlots, b \in RaceBufs, k \in RaceKeys :
          RacePutFile(c, b, k) /\ UNCHANGED <<factoryVars, uploadVars, adapterVars>>
    \/ \E c \in RaceSlots, k1 \in RaceKeys, k2 \in RaceKeys :
          RaceCopyFile(c, k1, k2) /\ UNCHANGED <<factoryVars, uploadVars, adapterVars>>
    \/ \E c \in RaceSlots : PutOpen(c) /\ UNCHANGED notFs
    \/ \E c \in RaceSlots : PutWrite(c) /\ UNCHANGED notFs
    \/ \E c \in RaceSlots : CopyWrite(c) /\ UNCHANGED notFs
    \/ \E c \in RaceSlots :
          RaceCallback(c) /\ UNCHANGED <<factoryVars, uploadVars, adapterVars>>
    \/ \E k \in RaceKeys : DeleteFile(k) /\ UNCHANGED notFs
    \/ \E k \in RaceKeys : GetFile(k) /\ UNCHANGED notFs

InitRace == FsInit /\ FactoryIdle /\ UploadIdle /\ AdapterIdle /\ ConcIdle

SpecRace == InitRace /\ [][RaceNext]_vars

InitRegistry == FsInit /\ FactoryIdle /\ UploadIdle /\ AdapterIdle /\ ConcIdle

SpecRegistry == InitRegistry /\ [][RegistryNext]_vars

\* ------------------------------------------------------------------------
\* Claims about the filesystem adapter (checked under Spec)
\* ------------------------------------------------------------------------

\* C1: write/read round trip.  Once putFile(buf, k) has resolved and no later
\* putFile, copyFile (as destination) or deleteFile has addressed the file of
\* k, getFile(k) resolves with exactly buf: both what getFile computes in the
\* current state and what a getFile call that ran has settled with.
RoundTrip ==
    /\ \A k \in Keys :
          FullPathOf(k) \in DOMAIN lastPut
              => getFile(files, dirs, k) = Ok(lastPut[FullPathOf(k)])
    /\ (ret.op = "getFile" /\ FullPathOf(ret.key) \in DOMAIN lastPut)
          => (ret.settled = "resolved" /\ ret.data = lastPut[FullPathOf(ret.key)])

\* a getFile on a canonical key read back the non-empty buffer of an earlier
\* putFile, with another call in between
RoundTripWitness ==
    /\ ret.op = "getFile"
    /\ IsCanonical(ret.key)
    /\ FullPathOf(ret.key) \in DOMAIN lastPut
    /\ ret.settled = "resolved"
    /\ Len(ret.data) > 0
    /\ nCalls >= 2

\* C2: delete.  After deleteFile(k) has resolved, getFile(k) rejects for as
\* long as no putFile or copyFile has written the file of k again.
DeleteThenGetFails ==
    /\ \A k \in Keys : FullPathOf(k) \in deleted => ~getFile(files, dirs, k).ok
    /\ (ret.op = "getFile" /\ FullPathOf(ret.key) \in deleted)
          => ret.settled = "rejected"

\* a getFile ran on a key whose file had been stored and then deleted
DeleteThenGetFailsWitness ==
    /\ ret.op = "getFile"
    /\ FullPathOf(ret.key) \in deleted
    /\ ret.settled = "rejected"
    /\ ret.err = "ENOENT"

\* C3 as stated: for every stored source key and every (canonical)
\* destination key, copyFile returns a record with key == k2, getFile(k2)
\* equals the source content and getFile(k1) still equals it.
CopyToEveryKey ==
    (ret.op = "copyFile" /\ ret.held # None /\ IsCanonical(ret.key))
        => /\ ret.settled = "resolved"
           /\ ret.rec.key = ret.key
           /\ getFile(files, dirs, ret.key) = Ok(ret.held[1])
           /\ getFile(files, dirs, ret.src) = Ok(ret.held[1])

\* C3 as amended: whenever copyFile(k1, k2) resolves, the source held some
\* buf, the record has key == k2, getFile(k2) equals buf, and getFile(k1)
\* still resolves with buf (a copy, not a move).
CopyPreserves ==
    (ret.op = "copyFile" /\ ret.settled = "resolved")
        => /\ ret.held # None
           /\ ret.rec.key = ret.key
           /\ getFile(files, dirs, ret.key) = Ok(ret.held[1])
           /\ getFile(files, dirs, ret.src) = Ok(ret.held[1])

\* a copy between two different files of a non-empty buffer has resolved
CopyPreservesWitness ==
    /\ ret.op = "copyFile"
    /\ ret.settled = "resolved"
    /\ FullPathOf(ret.key) # FullPathOf(ret.src)
    /\ ret.held # None
    /\ Len(ret.held[1]) > 0

\* C8: putFile result record.  A resolved putFile(buf, k) returns a record
\* whose key is k, whose size is the byte length of buf and whose url is
\* getUrl(k), which for a canonical key is the base URL, '/', and the key.
PutRecordFields ==
    (ret.op = "putFile" /\ ret.settled = "resolved")
        => /\ ret.rec.key = ret.key
           /\ ret.rec.size = Len(ret.buf)
           /\ ret.rec.url = getUrl(ret.key)
           /\ IsCanonical(ret.key)
                 => ret.rec.url = LocalOptions.baseUrl \o <<Slash>> \o ret.key

\* a putFile of a non-empty buffer to a nested canonical key has resolved
PutRecordFieldsWitness ==
    /\ ret.op = "putFile"
    /\ ret.settled = "resolved"
    /\ IsCanonical(ret.key)
    /\ Len(Split(ret.key, Slash)) > 1
    /\ Len(ret.buf) > 0

\* ------------------------------------------------------------------------
\* Claims about the factory and the registry (checked under SpecFactory)
\* ------------------------------------------------------------------------
Declarative(options) == options # Undefined /\ "storageFactory" \notin DOMAIN options

\* the selector the documented resolution order gives: override, else the
\* configured selector, else none
ExpectedSelector(options, override) ==
    IF override # "undefined" THEN override
    ELSE IF "storage" \in DOMAIN options THEN options.storage
    ELSE "undefined"

\* C4 (as stated): a createStorage call for a selector and configuration
\* that an earlier successful call was made for, with no clearCache() in
\* between, returns the adapter that earlier call returned and constructs
\* no new adapter.
CacheReuse ==
    (fret.op = "createStorage" /\ fret.ok /\ fret.prev # 0)
        => (fret.inst = fret.prev /\ fret.built = 0)

\* C5 (as stated): whenever getStorage is passed an override selector and
\* returns an adapter, the adapter is of the backend the override names,
\* whatever registry entry is set.
OverrideWinsForEveryEntry ==
    (fret.op = "getStorage" /\ fret.ok /\ fret.storageType # "undefined")
        => adapters[fret.inst].type = fret.storageType

\* C5 (amended): for a declarative registry entry, an adapter returned by
\* getStorage(override) is of the backend named by the override when one is
\* passed and of the configured selector otherwise, and with neither an
\* override nor a configured selector the call fails with the error for an
\* unsupported storage type.
ResolutionOrder ==
    (fret.op = "getStorage" /\ Declarative(fret.options))
        => /\ fret.ok =>
                adapters[fret.inst].type = ExpectedSelector(fret.options, fret.storageType)
           /\ ExpectedSelector(fret.options, fret.storageType) = "undefined" =>
                (~fret.ok /\ fret.inst = 0 /\ fret.err = UnsupportedError("undefined"))

\* an override different from the configured selector was passed and won
ResolutionOrderWitness ==
    /\ fret.op = "getStorage"
    /\ Declarative(fret.options)
    /\ "storage" \in DOMAIN fret.options
    /\ fret.options.storage = EnumLocal
    /\ fret.storageType = EnumS3
    /\ fret.ok
    /\ adapters[fret.inst].type = EnumS3

\* C9: createStorage, and getStorage on a declarative entry resolving to it,
\* called with a selector that is none of local, s3, azure fails with the
\* error whose message names the selector, returns no adapter, constructs
\* none and caches none.
UnknownSelectorFails ==
    LET selector == IF fret.op = "createStorage" THEN fret.storageType
                    ELSE ExpectedSelector(fret.options, fret.storageType)
    IN  ((fret.op = "createStorage" \/ (fret.op = "getStorage" /\ Declarative(fret.options)))
          /\ selector \notin {EnumLocal, EnumS3, EnumAzure})
            => /\ ~fret.ok
               /\ fret.inst = 0
               /\ fret.built = 0
               /\ fret.err.name = "Error"
               /\ fret.err.message = <<"Unsupported storage type: ", selector>>

UnknownSelectorFailsWitness ==
    /\ fret.op = "createStorage"
    /\ fret.storageType = "ftp"
    /\ fret.options = LocalConfigA
    /\ ~fret.ok
    /\ fret.err.message[2] = "ftp"

Names(error, package) == \E i \in DOMAIN error.message : error.message[i] = package

\* C10: when the client library of the S3 or the Azure backend cannot be
\* loaded, createStorage for that selector fails with the error that names
\* the required package and constructs nothing, and createStorage for the
\* local backend with a configuration object succeeds, whichever libraries
\* are missing and whatever failed before.
MissingDependencyNamed ==
    /\ (fret.op = "createStorage" /\ fret.storageType = EnumAzure
            /\ EnumAzure \notin installed)
          => (~fret.ok /\ fret.built = 0 /\ fret.err.name = "Error"
                /\ Names(fret.err, AzurePackage))
    /\ (fret.op = "createStorage" /\ fret.storageType = EnumS3 /\ EnumS3 \notin installed)
          => (~fret.ok /\ fret.built = 0 /\ fret.err.name = "Error"
                /\ Names(fret.err, S3Packages[1]) /\ Names(fret.err, S3Packages[2]))
    /\ (fret.op = "createStorage" /\ fret.storageType = EnumLocal
            /\ fret.options # Undefined)
          => (fret.ok /\ adapters[fret.inst].type = EnumLocal)

\* local succeeds after a failure on a missing library
MissingDependencyNamedWitness ==
    /\ installed = {}
    /\ missingSeen
    /\ fret.op = "createStorage"
    /\ fret.storageType = EnumLocal
    /\ fret.ok

\* ------------------------------------------------------------------------
\* Claims about uploads (checked under SpecUpload)
\* ------------------------------------------------------------------------
\* C6: when the fileName or the fileDist override throws for the file of an
\* upload, the handler of whichever adapter serves it calls no putFile and
\* writes nothing to the filesystem or to the remote store, and the
\* completion callback is called once, with the very error the override
\* threw and no file record; the request then fails with that error.
OverrideThrowAborts ==
    up.threw # NoError
        => /\ up.putCalls = 0
           /\ files = up.files0
           /\ objects = up.objects0
           /\ \A c \in Slots : calls[c].pc = "idle"
           /\ up.cbCount = 1
           /\ up.cbErr = up.threw
           /\ up.cbInfo = NoInfo
           /\ up.pc \in {"cb", "failed"}
           /\ up.pc = "failed" => (up.err = up.threw /\ body = <<>>)

\* the S3 adapter, which names the file only once the stream has ended,
\* reported the error thrown by the fileName override
OverrideThrowAbortsWitness ==
    /\ up.threw = NameRejected
    /\ up.inst # 0
    /\ UploadAdapter.type = EnumS3
    /\ up.cbCount = 1
    /\ up.cbErr = NameRejected
    /\ up.pc = "failed"

\* the key the default naming and placement give a file: YEAR/MONTH/DAY of
\* the date, then the random token, "-", and the original name
DefaultKey(date, token, file) ==
    Pad(date.year, 4) \o <<Slash>> \o Pad(date.month, 2) \o <<Slash>>
        \o Pad(date.day, 2) \o <<Slash>> \o token \o <<"-">> \o file.originalname

\* C7 (as stated): an upload through the interceptor to the local backend
\* configured with rootPath and baseUrl only, with no fileName or fileDist
\* in the interceptor options, once the handler has reported, has completed
\* without error, the file is stored under YEAR/MONTH/DAY/<token>-<original
\* name> of the current date, and request.body[fieldName] is that key.
DefaultUploadStores ==
    (/\ up.pc \in {"cb", "done", "failed"}
     /\ up.inst # 0
     /\ serviceOptions = [storage |-> EnumLocal, localConfig |-> LocalConfigA]
     /\ up.io = NoInterceptorOptions)
        => /\ up.cbErr = NoError
           /\ up.err = NoError
           /\ \E token \in Tokens :
                 LET key == DefaultKey(today, token, up.file)
                 IN  /\ up.cbInfo.key = key
                     /\ getFile(files, dirs, key) = Ok(up.file.buffer)
                     /\ up.pc = "done" => body = (up.file.fieldname :> key)

\* ------------------------------------------------------------------------
\* Claims about getUrl and the key/path codec (checked under SpecCodec)
\* ------------------------------------------------------------------------
EndsWithSlash(str) == str # <<>> /\ str[Len(str)] = Slash
BeginsWithSlash(str) == str # <<>> /\ str[1] = Slash

\* out is base without its trailing slash, one '/', and key without its
\* leading slash, and neither side of that '/' is another '/'
JoinedAtCleanSeam(base, key, out) ==
    LET trimmedBase == IF EndsWithSlash(base) THEN SubSeq(base, 1, Len(base) - 1) ELSE base
        trimmedKey == IF BeginsWithSlash(key) THEN Tail(key) ELSE key
    IN  /\ out = trimmedBase \o <<Slash>> \o trimmedKey
        /\ ~EndsWithSlash(trimmedBase)
        /\ ~BeginsWithSlash(trimmedKey)

AtMostOneTrailingSlash(str) ==
    ~(Len(str) >= 2 /\ str[Len(str)] = Slash /\ str[Len(str) - 1] = Slash)
AtMostOneLeadingSlash(str) ==
    ~(Len(str) >= 2 /\ str[1] = Slash /\ str[2] = Slash)

SchemeLetters == {"h", "t", "p", "f", "d", "x", "u"}

\* the string begins with a URL scheme: letters followed by ':'
BeginsWithScheme(str) ==
    \E i \in 2..Len(str) :
        /\ str[i] = ":"
        /\ \A j \in 1..(i - 1) : str[j] \in SchemeLetters

\* C12 (as stated): getUrl returns the key unmodified if the key begins with
\* a URL scheme, and for every other non-empty key it returns the base URL
\* concatenated with the key.
SchemePassThrough ==
    (probe.op = "getUrl" /\ probe.key # <<>>)
        => IF BeginsWithScheme(probe.key)
           THEN probe.out = probe.key
           ELSE probe.out = StripOneTrailing(probe.base, Slash) \o <<Slash>>
                               \o StripOneLeading(probe.key, Slash)

\* C13 (as stated): for every configured root and every canonical key k,
\* pathToUrl(getFullPath(k)) = k.
CodecRoundTrip ==
    (probe.op = "roundTrip" /\ IsCanonical(probe.key)) => probe.out = probe.key

\* C19 (as stated): for every configured root and every canonical key k,
\* pathToUrl(k) = k, and for every path p, pathToUrl(pathToUrl(p)) =
\* pathToUrl(p).
ToKeyIdempotent ==
    probe.op = "pathToUrl"
        => /\ IsCanonical(probe.key) => probe.out = probe.key
           /\ probe.again = probe.out

\* ------------------------------------------------------------------------
\* Claims about the adapters called directly (checked under SpecAdapters)
\* ------------------------------------------------------------------------
AddressingOps == {"getFile", "putFile", "deleteFile"}

\* C14 (as stated): getFile, putFile and deleteFile called with the empty
\* key fail with an InvalidKey error and make no read, write or delete
\* request to the backend, on every adapter.
EmptyKeyFailsFast ==
    /\ (rret.op \in AddressingOps /\ rret.key = <<>>)
          => /\ rret.requests = <<>>
             /\ rret.settled = "rejected"
             /\ rret.err.name = "InvalidKey"
    /\ (ret.op \in AddressingOps /\ ret.key = <<>>)
          => /\ ret.settled = "rejected"
             /\ ret.err = "InvalidKey"

\* C15 (as stated): the key of every record returned by putFile or copyFile,
\* on every adapter and for every input key, is canonical: non-empty
\* segments joined by '/', no leading slash, no backslash.
RecordKeysCanonical ==
    /\ (ret.op \in {"putFile", "copyFile"} /\ ret.settled = "resolved")
          => IsCanonical(ret.rec.key)
    /\ (rret.op = "putFile" /\ rret.settled = "resolved") => IsCanonical(rret.rec.key)

\* C16: when the backend's delete request fails, deleteFile of the Azure
\* adapter logs the error and resolves, deleteFile of the S3 adapter rejects
\* with the error of the request, and deleteFile of the filesystem adapter
\* rejects with the error of unlink (it resolves only when the file was
\* unlinked).
DeleteFailurePolicy ==
    /\ (rret.op = "deleteFile" /\ rret.failed)
          => IF rret.backend = EnumAzure
             THEN rret.settled = "resolved" /\ rret.logged /\ rret.err = NoError
             ELSE rret.settled = "rejected" /\ rret.err = BackendFailed
    /\ ret.op = "deleteFile"
          => /\ ret.settled \in {"resolved", "rejected"}
             /\ ret.settled = "resolved" => FullPathOf(ret.key) \in deleted
             /\ ret.settled = "rejected"
                   => /\ ~unlink(files, dirs, FullPathOf(ret.key)).ok
                      /\ ret.err = unlink(files, dirs, FullPathOf(ret.key)).err

\* the Azure adapter resolved a deleteFile whose request failed although
\* the blob exists
DeleteFailurePolicyWitness ==
    /\ rret.op = "deleteFile"
    /\ rret.backend = EnumAzure
    /\ rret.failed
    /\ Stored(objects, EnumAzure, rret.key)
    /\ rret.settled = "resolved"

\* C17 (as stated): getSignedUrl(key, opts) of the S3 adapter, for a
\* non-empty key, asks the presigner for a validity of 3600 seconds when the
\* caller gives no expiresIn and of opts.expiresIn seconds when the caller
\* gives one.
SignedUrlValidity ==
    (rret.op = "getSignedUrl" /\ rret.key # <<>>)
        => /\ rret.sign.made
           /\ rret.sign.expiresIn =
                 IF rret.opts = Undefined THEN Some(3600) ELSE Some(rret.opts.expiresIn)

\* C20 (as stated): the size of the record putFile returns is the size the
\* backend reported for the stored object after the write, whatever the
\* caller passed.
SizeBackendReported ==
    /\ (ret.op = "putFile" /\ ret.settled = "resolved")
          => (ret.stat.ok /\ ret.rec.size = ret.stat.val)
    /\ (rret.op = "putFile" /\ rret.settled = "resolved")
          => rret.rec.size = rret.reported

\* ------------------------------------------------------------------------
\* Claim about configurations (checked under SpecFactory)
\* ------------------------------------------------------------------------
\* the fields a backend's configuration shape requires and allows
RequiredFields(storageType) ==
    CASE storageType = EnumLocal -> {"rootPath", "baseUrl"}
      [] storageType = EnumS3 -> {"accessKeyId", "secretAccessKey", "region", "bucket"}
      [] storageType = EnumAzure -> {"account", "accountKey", "container"}

AllowedFields(storageType) ==
    RequiredFields(storageType) \cup FunctionFields \cup {"prefix"}
        \cup (IF storageType = EnumS3 THEN {"endpoint", "cloudFrontUrl"} ELSE {})

WellShaped(storageType, options) ==
    /\ RequiredFields(storageType) \subseteq DOMAIN options
    /\ DOMAIN options \subseteq AllowedFields(storageType)

\* C18 (as stated): constructing an adapter with a configuration that lacks
\* a required field of its shape or carries fields of another backend's
\* shape fails, and no operation of a constructed adapter fails for a
\* missing configuration field.
ConfigErrorsAtConstruction ==
    /\ (/\ fret.op = "createStorage"
        /\ fret.storageType \in {EnumLocal, EnumS3, EnumAzure}
        /\ fret.options # Undefined
        /\ ~WellShaped(fret.storageType, fret.options))
          => ~fret.ok
    /\ fret.op = "getUrl" => fret.ok

\* ------------------------------------------------------------------------
\* Claims about putFile of the adapters (checked under SpecAdapters)
\* ------------------------------------------------------------------------
\* C21 (as stated): every S3 putFile that resolves sent exactly one PutObject
\* and then exactly one HeadObject for the key the object was written to, and
\* its record carries the content length HeadObject reported; a putFile one
\* of whose requests failed rejects with the backend's error, having sent
\* each request at most once.
S3PutOrdering ==
    (rret.op = "putFile" /\ rret.backend = EnumS3) =>
        /\ rret.settled = "resolved" =>
              /\ rret.requests = <<"put", "head">>
              /\ rret.headed = rret.wrote
              /\ rret.rec.size = rret.reported
        /\ rret.failed =>
              /\ rret.settled = "rejected"
              /\ rret.err = BackendFailed
              /\ rret.requests \in {<<"put">>, <<"put", "head">>}

\* the record names the object a resolved putFile wrote
RecordNamesWritten(written, record) ==
    /\ written # None
    /\ record.key = written[1]
    /\ record.fullPath = written[1] \/ record.fullPath = FullPathOf(written[1])

\* C29 (as stated): the key (and fullPath) of the record a putFile resolves
\* with is the key the bytes were written under, for every adapter and every
\* options argument, and getFile of the record's key gives those bytes.
RecordKeyIsWrittenKey ==
    /\ (rret.op = "putFile" /\ rret.settled = "resolved") =>
          /\ RecordNamesWritten(rret.wrote, rret.rec)
          /\ remoteGetFile(objects, rret.backend, rret.rec.key, "ok").r.data = rret.buf
          /\ remoteGetFile(objects, rret.backend, rret.rec.key, "ok").r.settled = "resolved"
    /\ (ret.op = "putFile" /\ ret.settled = "resolved") =>
          /\ ret.rec.key = ret.key
          /\ ret.rec.fullPath = FullPathOf(ret.key)
          /\ getFile(files, dirs, ret.rec.key) = Ok(ret.buf)

\* ------------------------------------------------------------------------
\* Claim about the registry (checked under SpecRegistry)
\* ------------------------------------------------------------------------
\* C23: the registry is last-writer-wins.  However the setOptions calls of
\* forRoot providers, forRootAsync providers and direct callers interleave,
\* getOptions returns the argument of the setOptions call executed last (and
\* undefined before the first call); a later call is never ignored.
RegistryLastWriterWins ==
    /\ lastSet = None => getOptions = Undefined
    /\ lastSet # None => getOptions = lastSet[1]

\* two providers have set the registry with different entries
RegistryLastWriterWinsWitness ==
    /\ lastSet # None
    /\ \A p \in Providers : boot[p].pc = "resolved"
    /\ \E p \in Providers : boot[p].options # getOptions
    /\ \E p \in Providers : boot[p].kind = "forRootAsync" /\ boot[p].options = getOptions

\* ------------------------------------------------------------------------
\* Claims about the paths the filesystem adapter addresses
\* ------------------------------------------------------------------------
\* path p is the root directory or lies below it
InsideRoot(p) == p = rootPath \/ StartsWith(p, rootPath \o <<Slash>>)

\* C24 (as stated, checked under Spec): for every key, keys with "." and ".."
\* segments included, the path getFile, putFile, deleteFile or copyFile reads,
\* writes or deletes lies inside the configured root directory.
RootContainment ==
    /\ \A p \in DOMAIN files : InsideRoot(p)
    /\ ret.op \in {"getFile", "putFile", "deleteFile", "copyFile"}
          => InsideRoot(FullPathOf(ret.key))
    /\ ret.op = "copyFile" => InsideRoot(FullPathOf(ret.src))

\* what getFile(urlKey) observes: whether the file exists, and its content
Observed(fileMap, dirSet, urlKey) ==
    [exists |-> getFile(fileMap, dirSet, urlKey).ok,
     content |-> getFile(fileMap, dirSet, urlKey).val]

\* this step is a step of putFile or copyFile to urlKey, or deleteFile(urlKey)
StepOn(urlKey) ==
    \/ \E c \in RaceSlots :
          /\ calls'[c].pc # calls[c].pc
          /\ calls[c].pc # "callback"
          /\ urlKey = IF calls[c].pc = "idle" THEN calls'[c].key ELSE calls[c].key
    \/ nCalls' = nCalls + 1 /\ ret'.op = "deleteFile" /\ ret'.key = urlKey

\* C25 (as stated, checked under SpecRace): for two different canonical keys
\* k1 and k2 (no leading slash, no empty segment), no step of putFile or
\* copyFile to k1 and no deleteFile of k1 changes the existence or the
\* content getFile(k2) observes.
DistinctKeysFrame ==
    [][\A k1 \in RaceKeys, k2 \in RaceKeys :
          (k1 # k2 /\ IsCanonical(k1) /\ IsCanonical(k2) /\ StepOn(k1))
              => Observed(files', dirs', k2) = Observed(files, dirs, k2)]_vars

\* ------------------------------------------------------------------------
\* Claims about overlapping calls (checked under SpecRace)
\* ------------------------------------------------------------------------
\* both slots hold a settled putFile, the two calls are the only calls made
\* and they addressed one file
BothPutsSettled ==
    /\ nCalls = 2
    /\ \A c \in RaceSlots :
          calls[c].pc = "idle" /\ done[c].op = "putFile" /\ done[c].settled # "none"
    /\ FullPathOf(done[1].key) = FullPathOf(done[2].key)

\* C22 (as stated): when two putFile calls to one key overlap, both resolve
\* with a record, and once both have completed getFile of the key returns
\* the buffer of one of them, never a mixture or truncation of the two.
ConcurrentPutsLastWriterWins ==
    BothPutsSettled =>
        /\ \A c \in RaceSlots : done[c].settled = "resolved"
        /\ getFile(files, dirs, done[1].key).ok
        /\ getFile(files, dirs, done[1].key).val \in {done[1].buf, done[2].buf}

\* C26 (as stated): every putFile and copyFile call settles: the callback of
\* its write or copy resolves or rejects the promise, whatever other calls
\* (a deleteFile of the same key between the end of the write and the stat
\* included) ran in between.
PutAndCopySettle ==
    \A c \in RaceSlots :
        (done[c].op \in {"putFile", "copyFile"} /\ calls[c].pc = "idle")
            => done[c].settled \in {"resolved", "rejected"}

\* ------------------------------------------------------------------------
\* Claims about uploads and the registry
\* ------------------------------------------------------------------------
\* C27 (as stated, checked under SpecUpload): for every file handed to
\* _handleFile the completion callback is invoked exactly once: never twice,
\* and the handler never comes to rest without having invoked it, whether
\* the stream ends or fails and whether putFile settles with a record or an
\* error.
UploadCallbackOnce ==
    /\ up.cbCount <= 1
    /\ up.pc # "hung"
    /\ up.pc \in {"cb", "done"} => up.cbCount = 1

\* C28 (as stated, checked under SpecFactory): for every registry entry and
\* no per-route storageType, the adapter the interceptor creates for an
\* upload is of the backend of the adapter getStorage() returns.
UploadAndServiceAgree ==
    (fret.op = "intercept" /\ fret.storageType = "undefined" /\ fret.ok) =>
        /\ getStorage("undefined", storageInstances, adapters, installed, files, dirs).ok
        /\ getStorage("undefined", storageInstances, adapters, installed, files, dirs)
              .heap[getStorage("undefined", storageInstances, adapters, installed,
                               files, dirs).inst].type
             = adapters[fret.inst].type

\* the backend whose missing client library the error names
MissingLibraryOf(error) == IF error = MissingS3Error THEN EnumS3 ELSE EnumAzure

\* C30 (as stated, checked under SpecFactory): createStorage, called directly
\* or through getStorage, fails with the MissingDependency error of the S3
\* or Azure backend only when that backend's client library cannot be
\* loaded; when the library loads and the adapter's constructor throws, the
\* constructor's error is what the caller gets.
MissingDependencyOnlyWhenMissing ==
    (/\ fret.op \in {"createStorage", "getStorage"}
     /\ ~fret.ok
     /\ fret.err \in {MissingS3Error, MissingAzureError})
        => ~importAdapter(MissingLibraryOf(fret.err), installed)

====
